---------------------------- MODULE Spec2Model ----------------------------
(***************************************************************************)
(* The dialogue orchestration engine of the AI API assistant:              *)
(*   - the API catalog and its keyword ranking (api_knowledge_base.py),    *)
(*   - parameter extraction and validation (parameter_manager.py),         *)
(*   - the clarification / reply reconciliation (conversation_manager.py), *)
(*   - the execution planner (execution_planner.py),                       *)
(*   - the result formatter (result_formatter.py),                         *)
(*   - the conversation controller AIAgent (ai_agent.py),                  *)
(*   - the WebSocket endpoint (app.py).                                    *)
(*                                                                         *)
(* The language model is the environment: every call to                    *)
(* generate_content_async either raises or returns a reply, and the reply  *)
(* is whatever the model likes.  One action of the controller is the code *)
(* a handler runs between two awaits of the model.                         *)
(*                                                                         *)
(* Representation.  Python None is the empty tuple and a present value x   *)
(* is <<x>>.  A Python dict of parameters is a function whose domain is    *)
(* the set of its keys.  A Python value is a record [py, s]: py is the     *)
(* name of its Python type and s its text.  match_score is counted in      *)
(* quarters (the code adds 1, 0.5 and 0.75).                               *)
(***************************************************************************)
EXTENDS Integers, Sequences, FiniteSets, TLC

VARIABLES
    current_state,          \* AIAgent.current_state
    current_intent,         \* AIAgent.current_intent
    matched_apis,           \* AIAgent.matched_apis
    collected_parameters,   \* AIAgent.collected_parameters
    missing_parameters,     \* AIAgent.missing_parameters
    execution_plan,         \* AIAgent.execution_plan
    conversation_history,   \* ConversationManager.conversation_history
    turn,                   \* the call of process_user_input that has just
                            \* returned (what it started from and was given),
                            \* and what the replies gave for the current intent
    out,                    \* what that call did (its response, its calls)
    transport               \* app.py: agent_instances, and for each WebSocket
                            \* connection where its handler is, the frame of
                            \* its suspended call and the message it sent last

vars == << current_state, current_intent, matched_apis, collected_parameters,
           missing_parameters, execution_plan, conversation_history, turn, out,
           transport >>

None == << >>

Some(x) == << x >>

-----------------------------------------------------------------------------
(* Bounds of the exploration.                                              *)

\* Number of process_user_input calls started in one session.
MaxTurns == 3

\* Largest number of keys in one extraction reply of the model.
MaxKeys == 2

\* Largest number of words of an intent given to the ranking on its own.
MaxWords == 2

-----------------------------------------------------------------------------
(* Generic helpers.                                                        *)

Range(f) == { f[i] : i \in DOMAIN f }

\* dict.update(other): keys of other win
DictUpdate(d, other) ==
    [k \in (DOMAIN d) \cup (DOMAIN other) |->
        IF k \in DOMAIN other THEN other[k] ELSE d[k]]

EmptyDict == [k \in {} |-> None]

-----------------------------------------------------------------------------
(* The catalog: src/api_knowledge_data.py.  keyword_words and              *)
(* description_words are the words of the vocabulary that are a substring  *)
(* of one of the API's intent_keywords, resp. of its description;          *)
(* path_terms are the terms the scorer looks for that occur in the path.   *)

ApiOrder ==
    << "add_professors",
       "process_user_input",
       "get_course_ratings",
       "get_general_posts",
       "create_general_post",
       "get_all_posts",
       "create_post",
       "get_professors",
       "login",
       "logout",
       "signup",
       "flag_post",
       "get_username",
       "check_upvote_status",
       "get_user_profile",
       "rate_course",
       "search_courses",
       "upvote_post",
       "verify_user" >>

API_KNOWLEDGE ==
  [
  add_professors |->
    [path |-> "/api/addprof", method |-> "POST",
     parameters |-> << [name |-> "departmentName", type |-> "string", required |-> TRUE], [name |-> "professorName", type |-> "array", required |-> TRUE] >>,
     keyword_words |-> {"add"},
     description_words |-> {"add", "professors"},
     path_terms |-> {"add"},
     id_terms |-> {}],
  process_user_input |->
    [path |-> "/api/agent", method |-> "POST",
     parameters |-> << [name |-> "inputText", type |-> "string", required |-> TRUE] >>,
     keyword_words |-> {},
     description_words |-> {"course"},
     path_terms |-> {},
     id_terms |-> {}],
  get_course_ratings |->
    [path |-> "/api/allcourseRatings", method |-> "GET",
     parameters |-> <<  >>,
     keyword_words |-> {"view", "ratings", "course"},
     description_words |-> {"ratings", "course"},
     path_terms |-> {},
     id_terms |-> {}],
  get_general_posts |->
    [path |-> "/api/allgeneralposts", method |-> "GET",
     parameters |-> << [name |-> "postType", type |-> "string", required |-> FALSE] >>,
     keyword_words |-> {"general", "view"},
     description_words |-> {},
     path_terms |-> {},
     id_terms |-> {}],
  create_general_post |->
    [path |-> "/api/allgeneralposts", method |-> "POST",
     parameters |-> << [name |-> "title", type |-> "string", required |-> TRUE], [name |-> "postType", type |-> "string", required |-> TRUE], [name |-> "content", type |-> "string", required |-> TRUE], [name |-> "tags", type |-> "array", required |-> TRUE], [name |-> "image", type |-> "File", required |-> FALSE] >>,
     keyword_words |-> {"add"},
     description_words |-> {},
     path_terms |-> {},
     id_terms |-> {}],
  get_all_posts |->
    [path |-> "/api/allposts", method |-> "GET",
     parameters |-> <<  >>,
     keyword_words |-> {"view"},
     description_words |-> {},
     path_terms |-> {},
     id_terms |-> {}],
  create_post |->
    [path |-> "/api/allposts", method |-> "POST",
     parameters |-> << [name |-> "courseCategory", type |-> "string", required |-> TRUE], [name |-> "courseCode", type |-> "string", required |-> TRUE], [name |-> "prof", type |-> "string", required |-> TRUE], [name |-> "content", type |-> "string", required |-> TRUE] >>,
     keyword_words |-> {"add", "course"},
     description_words |-> {},
     path_terms |-> {},
     id_terms |-> {}],
  get_professors |->
    [path |-> "/api/allprof", method |-> "POST",
     parameters |-> << [name |-> "departmentName", type |-> "string", required |-> TRUE] >>,
     keyword_words |-> {"professors"},
     description_words |-> {"professors"},
     path_terms |-> {},
     id_terms |-> {}],
  login |->
    [path |-> "/api/auth/login", method |-> "POST",
     parameters |-> << [name |-> "username", type |-> "string", required |-> TRUE], [name |-> "password", type |-> "string", required |-> TRUE] >>,
     keyword_words |-> {"login"},
     description_words |-> {},
     path_terms |-> {},
     id_terms |-> {}],
  logout |->
    [path |-> "/api/auth/logout", method |-> "DELETE",
     parameters |-> <<  >>,
     keyword_words |-> {"logout"},
     description_words |-> {"login"},
     path_terms |-> {},
     id_terms |-> {}],
  signup |->
    [path |-> "/api/auth/signup", method |-> "POST",
     parameters |-> << [name |-> "username", type |-> "string", required |-> TRUE], [name |-> "password", type |-> "string", required |-> TRUE] >>,
     keyword_words |-> {},
     description_words |-> {},
     path_terms |-> {},
     id_terms |-> {}],
  flag_post |->
    [path |-> "/api/flagPost", method |-> "POST",
     parameters |-> << [name |-> "userId", type |-> "string", required |-> TRUE] >>,
     keyword_words |-> {},
     description_words |-> {},
     path_terms |-> {},
     id_terms |-> {}],
  get_username |->
    [path |-> "/api/getUsername", method |-> "POST",
     parameters |-> <<  >>,
     keyword_words |-> {},
     description_words |-> {},
     path_terms |-> {"get"},
     id_terms |-> {}],
  check_upvote_status |->
    [path |-> "/api/isupvotedornot", method |-> "POST",
     parameters |-> << [name |-> "postId", type |-> "string", required |-> TRUE] >>,
     keyword_words |-> {},
     description_words |-> {},
     path_terms |-> {},
     id_terms |-> {}],
  get_user_profile |->
    [path |-> "/api/profile", method |-> "POST",
     parameters |-> <<  >>,
     keyword_words |-> {},
     description_words |-> {},
     path_terms |-> {},
     id_terms |-> {}],
  rate_course |->
    [path |-> "/api/rate", method |-> "POST",
     parameters |-> << [name |-> "courseCategory", type |-> "string", required |-> TRUE], [name |-> "courseCode", type |-> "string", required |-> TRUE], [name |-> "profName", type |-> "string", required |-> TRUE], [name |-> "starRating", type |-> "number", required |-> TRUE], [name |-> "attendance", type |-> "string", required |-> TRUE], [name |-> "courseContent", type |-> "string", required |-> TRUE], [name |-> "gradingPolicy", type |-> "string", required |-> TRUE], [name |-> "gradeAvg", type |-> "number", required |-> TRUE], [name |-> "auditgrade", type |-> "string", required |-> FALSE] >>,
     keyword_words |-> {"view", "course"},
     description_words |-> {"course"},
     path_terms |-> {"rate"},
     id_terms |-> {"rate"}],
  search_courses |->
    [path |-> "/api/search", method |-> "POST",
     parameters |-> << [name |-> "searchQuery", type |-> "string", required |-> TRUE] >>,
     keyword_words |-> {"course"},
     description_words |-> {"course", "info"},
     path_terms |-> {"search"},
     id_terms |-> {"search"}],
  upvote_post |->
    [path |-> "/api/upvotegeneralposts", method |-> "POST",
     parameters |-> << [name |-> "postId", type |-> "string", required |-> TRUE] >>,
     keyword_words |-> {},
     description_words |-> {},
     path_terms |-> {},
     id_terms |-> {}],
  verify_user |->
    [path |-> "/api/verificationForCreatePost", method |-> "POST",
     parameters |-> <<  >>,
     keyword_words |-> {},
     description_words |-> {},
     path_terms |-> {"create"},
     id_terms |-> {}]
  ]

\* APIKnowledgeBase.get_detailed_api_info: {**self.apis.get(api_id, {}), 'id': api_id}
get_detailed_api_info(api_id) ==
    IF api_id \in DOMAIN API_KNOWLEDGE
    THEN [id |-> api_id,
          path |-> API_KNOWLEDGE[api_id].path,
          method |-> API_KNOWLEDGE[api_id].method,
          parameters |-> API_KNOWLEDGE[api_id].parameters]
    ELSE [id |-> api_id]

\* APIKnowledgeBase.get_api_by_path with method = None: the first API of the
\* catalog, in catalog order, whose path is the given one; None if there is none.
get_api_by_path(path) ==
    LET hits == SelectSeq(ApiOrder, LAMBDA i : API_KNOWLEDGE[i].path = path)
    IN  IF hits = << >> THEN None ELSE Some(get_detailed_api_info(Head(hits)))

-----------------------------------------------------------------------------
(* Intent ranking: APIKnowledgeBase.find_apis_by_intent.  An intent is the *)
(* sequence of its whitespace-separated words.                             *)

\* str.lower() on the words of the vocabulary
Lower(w) ==
    CASE w = "Logout" -> "logout"
      [] OTHER -> w

\* For each lower-cased word of the vocabulary, the terms the scorer
\* searches for with `term in intent_lower` that are a substring of the word.
WordTerms ==
  [
  add |-> {"add"},
  asdkjasd |-> {},
  course |-> {},
  general |-> {},
  info |-> {},
  login |-> {},
  logout |-> {},
  professors |-> {},
  ratings |-> {"ratings"},
  view |-> {"view"}
  ]

\* Pairs of adjacent lower-cased words "a b" that contain one of
\* "course information", "course details", "course info".
CourseInfoPairs == {<<"course", "info">>}
retrieval_verbs ==
    {"get", "find", "show", "view", "display", "search", "lookup", "retrieve", "fetch"}

creation_verbs ==
    {"create", "add", "make", "submit", "post", "rate", "give", "provide", "write"}

\* intent_lower.split()
intent_words(intent) == [i \in DOMAIN intent |-> Lower(intent[i])]

\* the terms t for which `t in intent_lower` holds
IntentTerms(intent) ==
    UNION { WordTerms[intent_words(intent)[i]] : i \in DOMAIN intent }

HasCourseInfoTerm(intent) ==
    \E i \in 1..(Len(intent) - 1) :
        << intent_words(intent)[i], intent_words(intent)[i + 1] >> \in CourseInfoPairs

RECURSIVE KeywordScore(_, _)
\* lines 92-102: +1 per word contained in some keyword, +0.5 per word
\* contained in the description (in quarters: 4 and 2)
KeywordScore(words, api) ==
    IF words = << >> THEN 0
    ELSE (IF Head(words) \in api.keyword_words THEN 4 ELSE 0)
         + (IF Head(words) \in api.description_words THEN 2 ELSE 0)
         + KeywordScore(Tail(words), api)

\* lines 109-119
RetrievalScore(terms, api) ==
    IF terms \cap retrieval_verbs = {} THEN 0
    ELSE (IF api.method = "GET" THEN 4 ELSE 0)
         + (IF api.path_terms \cap {"search", "get", "find", "list"} # {} THEN 3 ELSE 0)
         - (IF api.method = "POST" /\ api.path_terms \cap {"create", "add", "submit"} # {}
            THEN 2 ELSE 0)

\* lines 122-132
CreationScore(terms, api) ==
    IF terms \cap creation_verbs = {} THEN 0
    ELSE (IF api.method = "POST" THEN 4 ELSE 0)
         + (IF api.path_terms \cap {"create", "add", "new", "rate"} # {} THEN 3 ELSE 0)
         - (IF api.method = "GET" THEN 2 ELSE 0)

\* lines 135-148
RateScore(terms, api) ==
    IF "rate" \notin api.id_terms THEN 0
    ELSE (IF "rate" \in terms /\ "ratings" \notin terms THEN 4 ELSE 0)
         + (IF "ratings" \in terms
            THEN (IF "search" \in api.id_terms THEN 4 ELSE -2)
            ELSE 0)

\* lines 151-153
SearchScore(intent, api) ==
    IF "search" \in api.id_terms /\ HasCourseInfoTerm(intent) THEN 4 ELSE 0

\* the final match_score of one API, in quarters
match_score(intent, api_id) ==
    LET api == API_KNOWLEDGE[api_id]
    IN  KeywordScore(intent_words(intent), api)
        + RetrievalScore(IntentTerms(intent), api)
        + CreationScore(IntentTerms(intent), api)
        + RateScore(IntentTerms(intent), api)
        + SearchScore(intent, api)

RECURSIVE InsertByScoreBeforeTies(_, _)
\* faulty variant: x goes in front of the elements of its own score
InsertByScoreBeforeTies(sorted, x) ==
    IF sorted = << >> THEN << x >>
    ELSE IF Head(sorted).match_score > x.match_score
         THEN << Head(sorted) >> \o InsertByScoreBeforeTies(Tail(sorted), x)
         ELSE << x >> \o sorted

RECURSIVE InsertByScore(_, _)
\* x goes behind every element whose score is at least its own
InsertByScore(sorted, x) ==
    IF sorted = << >> THEN << x >>
    ELSE IF Head(sorted).match_score >= x.match_score
         THEN << Head(sorted) >> \o InsertByScore(Tail(sorted), x)
         ELSE << x >> \o sorted

RECURSIVE SortByScore(_, _)
\* sorted(matched_apis, key=match_score, reverse=True): stable
SortByScore(done, rest) ==
    IF rest = << >> THEN done
    ELSE SortByScore(InsertByScore(done, Head(rest)), Tail(rest))

\* the matched APIs, each {**api_data, 'id': api_id, 'match_score': score}
RankApis(intent) ==
    LET scored  == [i \in DOMAIN ApiOrder |->
                       [id |-> ApiOrder[i], match_score |-> match_score(intent, ApiOrder[i])]]
        matched == SelectSeq(scored, LAMBDA m : m.match_score > 0)
    IN  SortByScore(<< >>, matched)

\* the intents the model names in the explored turns
Intents ==
    { << "asdkjasd" >>, << "Logout" >>, << "add", "professors" >>, << "general" >> }

\* the ranking of each explored intent, computed once
Ranking == [intent \in Intents |-> RankApis(intent)]

\* APIKnowledgeBase.find_apis_by_intent
find_apis_by_intent(intent) ==
    IF intent \in Intents THEN Ranking[intent] ELSE RankApis(intent)

-----------------------------------------------------------------------------
(* Python values and parameter validation: ParameterManager.               *)

Val(py, s) == [py |-> py, s |-> s]

\* texts t with t.strip() = ""
BlankTexts == {"", " "}

\* texts for which float(t) succeeds
FloatTexts == {"42", "4.5"}

\* texts for which float(t) is a whole number
WholeFloatTexts == {"42"}

\* texts that json.loads turns into a list
JsonListTexts == {"[1, 2]"}

\* texts that json.loads turns into a dict
JsonDictTexts == {"{}"}

\* texts that json.loads accepts and turns into something else than a list
JsonOtherTexts == {"42", "4.5", "true"} \cup JsonDictTexts

\* type(json.loads(t)).__name__ for these texts
JsonOtherType(t) ==
    CASE t = "42" -> "int"
      [] t = "4.5" -> "float"
      [] t = "true" -> "bool"
      [] t \in JsonDictTexts -> "dict"

\* texts that contain a comma
CommaTexts == {"a,b", "[1, 2]"}

\* texts t with t.lower() in ["true", "false", "yes", "no", "1", "0"]
BooleanTexts == {"true", "True", "false", "False", "yes", "Yes", "no", "No", "1", "0"}

\* dict.get(key, default) on a parameter definition
ParamGet(param, key, default) ==
    IF key \in DOMAIN param THEN param[key] ELSE default

\* float(value) does not raise
FloatConverts(value) ==
    \/ value.py \in {"int", "float", "bool"}
    \/ value.py = "str" /\ value.s \in FloatTexts

\* float_val != int(float_val)
FloatIsFractional(value) ==
    \/ value.py = "float" /\ value.s \notin WholeFloatTexts
    \/ value.py = "str" /\ value.s \notin WholeFloatTexts

Valid == [valid |-> TRUE, reason |-> ""]

Invalid(reason) == [valid |-> FALSE, reason |-> reason]

\* ParameterManager._validate_param_value
_validate_param_value(value, param_definition) ==
    LET param_type == ParamGet(param_definition, "type", "string")
        param_name == ParamGet(param_definition, "name", "Unknown parameter")
    IN  IF value.py = "NoneType" \/ (value.py = "str" /\ value.s \in BlankTexts)
        THEN IF ParamGet(param_definition, "required", FALSE)
             THEN Invalid(param_name \o " cannot be empty")
             ELSE Valid
        ELSE CASE param_type = "string" ->
                    IF value.py # "str"
                    THEN Invalid(param_name \o " must be a string, got " \o value.py)
                    ELSE Valid
               [] param_type = "number" ->
                    IF ~ FloatConverts(value)
                    THEN Invalid(param_name \o " must be a number, got '" \o value.s \o "'")
                    ELSE IF ParamGet(param_definition, "integer", FALSE)
                            /\ FloatIsFractional(value)
                         THEN Invalid(param_name \o " must be an integer, got " \o value.s)
                         ELSE Valid
               [] param_type = "boolean" ->
                    IF value.py = "bool" THEN Valid
                    ELSE IF value.py = "str" /\ value.s \in BooleanTexts THEN Valid
                    ELSE Invalid(param_name \o " must be a boolean (true/false), got '"
                                 \o value.s \o "'")
               [] param_type = "array" ->
                    IF value.py = "list" THEN Valid
                    ELSE IF value.py = "str"
                         THEN IF value.s \in JsonListTexts THEN Valid
                              ELSE IF value.s \in JsonOtherTexts
                                   THEN Invalid(param_name \o " must be an array, parsed as "
                                                \o JsonOtherType(value.s))
                                   ELSE IF value.s \in CommaTexts THEN Valid
                                        ELSE Invalid(param_name \o " must be a valid array, got '"
                                                     \o value.s \o "'")
                         ELSE Invalid(param_name \o " must be an array, got " \o value.py)
               [] OTHER -> Valid

\* next((p for p in all_parameters if p.get("name") == param_name), None)
ParamDef(all_parameters, param_name) ==
    LET hits == SelectSeq(all_parameters, LAMBDA p : p.name = param_name)
    IN  IF hits = << >> THEN None ELSE Some(Head(hits))

\* the keys of extracted_params that _validate_parameters keeps (lines 172-188)
ValidatedKeys(extracted_params, all_parameters) ==
    { k \in DOMAIN extracted_params :
        /\ ParamDef(all_parameters, k) # None
        /\ _validate_param_value(extracted_params[k], ParamDef(all_parameters, k)[1]).valid }

\* one entry of the missing list (lines 194-200)
MissingEntry(req_param) ==
    [name |-> req_param.name,
     reason |-> "Not provided",
     type |-> ParamGet(req_param, "type", "unknown"),
     required |-> TRUE]

\* ParameterManager._validate_parameters
_validate_parameters(extracted_params, required_parameters, all_parameters) ==
    LET validated_params ==
            [k \in ValidatedKeys(extracted_params, all_parameters) |-> extracted_params[k]]
        still_required ==
            SelectSeq(required_parameters, LAMBDA p : p.name \notin DOMAIN validated_params)
    IN  [valid_params |-> validated_params,
         missing_params |-> [i \in DOMAIN still_required |-> MissingEntry(still_required[i])]]

\* a list element that is not a dict: its .get raises AttributeError
NotADict == [py |-> "str"]

IsDict(x) == "py" \notin DOMAIN x

\* what a call gives that raised the AttributeError of `.get` on an element
\* that is not a dict
NotADictError == << [raises |-> TRUE] >>

\* ParameterManager._get_required_parameters: the declared parameters of the
\* primary (first) matched API, whatever follows it in the list; a first
\* element that is not a dict raises at line 34
_get_required_parameters(apis) ==
    IF apis = << >> THEN << >>
    ELSE IF ~ IsDict(apis[1]) THEN NotADictError
    ELSE IF "id" \notin DOMAIN apis[1] THEN << >>
    ELSE LET api_info == get_detailed_api_info(apis[1].id)
         IN  IF "parameters" \in DOMAIN api_info THEN api_info.parameters ELSE << >>

\* A reply of the language model, or the exception the call raised.
Raise == [raises |-> TRUE, value |-> None]

Reply(v) == [raises |-> FALSE, value |-> Some(v)]

\* ParameterManager.extract_parameters.  reply is the model's answer parsed
\* into a dict (lines 119-151), or the exception of the call or of the parse.
\* Without declared parameters the model is not called (lines 69-73); the
\* exception of _get_required_parameters (line 64) is not caught.
extract_parameters(apis, reply) ==
    LET all_parameters      == _get_required_parameters(apis)
        required_parameters == SelectSeq(all_parameters,
                                         LAMBDA p : ParamGet(p, "required", FALSE))
    IN  IF all_parameters = NotADictError
        THEN [raises |-> TRUE, called_model |-> FALSE,
              valid_params |-> EmptyDict, missing_params |-> << >>]
        ELSE IF all_parameters = << >>
        THEN [raises |-> FALSE, called_model |-> FALSE,
              valid_params |-> EmptyDict, missing_params |-> << >>]
        ELSE IF reply.raises
             THEN [raises |-> TRUE, called_model |-> TRUE,
                   valid_params |-> EmptyDict, missing_params |-> << >>]
             ELSE LET r == _validate_parameters(reply.value[1], required_parameters,
                                                all_parameters)
                  IN  [raises |-> FALSE, called_model |-> TRUE,
                       valid_params |-> r.valid_params,
                       missing_params |-> r.missing_params]

-----------------------------------------------------------------------------
(* Execution planner: ExecutionPlanner.                                    *)

\* ExecutionPlanner._create_fallback_plan
_create_fallback_plan(message) ==
    [steps |-> << >>,
     description |-> message
                     \o " Please try rephrasing your request or providing more details."]

\* the "[MISSING: name]" placeholder of line 101
MissingSentinel(param_name) == Val("str", "[MISSING: " \o param_name \o "]")

\* faulty variant: a required parameter without a value is left out
PlanStepWithoutSentinel(api, parameters) ==
    LET api_params == ParamGet(api, "parameters", << >>)
        bound == { api_params[i].name : i \in
                     { j \in DOMAIN api_params :
                         api_params[j].name \in DOMAIN parameters } }
    IN  [api |-> ParamGet(api, "path", ""),
         method |-> ParamGet(api, "method", "GET"),
         parameters |-> [n \in bound |-> parameters[n]]]

\* lines 83-104: one step, with the declared parameters that have a value in
\* the map, and the sentinel for the required ones that have none
PlanStep(api, parameters) ==
    LET api_params == ParamGet(api, "parameters", << >>)
        bound == { api_params[i].name : i \in
                     { j \in DOMAIN api_params :
                         \/ api_params[j].name \in DOMAIN parameters
                         \/ ParamGet(api_params[j], "required", FALSE) } }
    IN  [api |-> ParamGet(api, "path", ""),
         method |-> ParamGet(api, "method", "GET"),
         parameters |-> [n \in bound |->
                            IF n \in DOMAIN parameters
                            THEN parameters[n]
                            ELSE MissingSentinel(n)]]

\* lines 57-71: the catalog entry of the primary API, with a path
PrimaryApiInfo(primary_api) ==
    LET api_info == get_detailed_api_info(primary_api.id)
    IN  IF "path" \in DOMAIN api_info /\ api_info.path # ""
        THEN api_info
        ELSE [k \in (DOMAIN api_info) \cup {"path"} |->
                IF k = "path"
                THEN (IF "path" \in DOMAIN primary_api
                      THEN primary_api.path
                      ELSE "/api/" \o primary_api.id)
                ELSE api_info[k]]

NoActionsText == "I don't have any specific actions to take for your request."

ModelPlanText == "model: explanation of the plan"

SimplePlanText == "Here's what I'll do:"

\* ExecutionPlanner._generate_simple_plan_description
_generate_simple_plan_description(execution_steps) ==
    IF execution_steps = << >> THEN NoActionsText ELSE SimplePlanText

\* faulty variant: the model is asked for an empty step list too
_generate_plan_description_always_asks(execution_steps, reply) ==
    IF reply.raises
    THEN [raises |-> TRUE, text |-> ""]
    ELSE [raises |-> FALSE, text |-> ModelPlanText]

\* ExecutionPlanner._generate_plan_description: the model is asked only for
\* a non-empty step list; its exception goes to the caller
_generate_plan_description(execution_steps, reply) ==
    IF execution_steps = << >>
    THEN [raises |-> FALSE, text |-> NoActionsText]
    ELSE IF reply.raises
         THEN [raises |-> TRUE, text |-> ""]
         ELSE [raises |-> FALSE, text |-> ModelPlanText]

\* line 125: the message of the fallback plan of the outer except clause
PlanningErrorText == "I encountered an error while planning how to handle your request."

\* faulty variant: no inner try around the description call, so its
\* exception ends in the outer except clause and the steps are lost
create_execution_plan_without_inner_try(apis, parameters, reply) ==
    IF apis = << >>
    THEN _create_fallback_plan("No APIs were matched to your request.")
    ELSE IF \E i \in DOMAIN apis : ~ IsDict(apis[i])
    THEN _create_fallback_plan(PlanningErrorText)
    ELSE IF "id" \notin DOMAIN apis[1]
    THEN _create_fallback_plan("I couldn't determine which API to use for your request.")
    ELSE IF _generate_plan_description(
                << PlanStep(PrimaryApiInfo(apis[1]), parameters) >>, reply).raises
    THEN _create_fallback_plan(PlanningErrorText)
    ELSE [steps |-> << PlanStep(PrimaryApiInfo(apis[1]), parameters) >>,
          description |-> ModelPlanText]

\* faulty variant: the plan is made for the last matched API
create_execution_plan_for_last_match(apis, parameters, reply) ==
    IF apis = << >>
    THEN _create_fallback_plan("No APIs were matched to your request.")
    ELSE IF \E i \in DOMAIN apis : ~ IsDict(apis[i])
    THEN _create_fallback_plan(PlanningErrorText)
    ELSE IF "id" \notin DOMAIN apis[Len(apis)]
    THEN _create_fallback_plan("I couldn't determine which API to use for your request.")
    ELSE [steps |-> << PlanStep(PrimaryApiInfo(apis[Len(apis)]), parameters) >>,
          description |-> IF reply.raises THEN SimplePlanText ELSE ModelPlanText]

\* faulty variant: the primary API is not checked for an id
create_execution_plan_without_id_check(apis, parameters, reply) ==
    IF apis = << >>
    THEN _create_fallback_plan("No APIs were matched to your request.")
    ELSE IF \E i \in DOMAIN apis : ~ IsDict(apis[i])
    THEN _create_fallback_plan(PlanningErrorText)
    ELSE IF "id" \notin DOMAIN apis[1]
    THEN [steps |-> << [api |-> "/api/None", method |-> "GET",
                        parameters |-> EmptyDict] >>,
          description |-> ModelPlanText]
    ELSE [steps |-> << PlanStep(PrimaryApiInfo(apis[1]), parameters) >>,
          description |-> IF reply.raises THEN SimplePlanText ELSE ModelPlanText]

\* ExecutionPlanner.create_execution_plan; reply is the outcome of the
\* model call of _generate_plan_description.  The loop of lines 41-44 calls
\* .get on every element of the list: an element that is not a dict raises,
\* and the outer except clause (lines 123-126) returns the fallback plan.
create_execution_plan(apis, parameters, reply) ==
    IF apis = << >>
    THEN _create_fallback_plan("No APIs were matched to your request.")
    ELSE IF \E i \in DOMAIN apis : ~ IsDict(apis[i])
    THEN _create_fallback_plan(PlanningErrorText)
    ELSE IF "id" \notin DOMAIN apis[1]
    THEN _create_fallback_plan("I couldn't determine which API to use for your request.")
    ELSE LET execution_steps == << PlanStep(PrimaryApiInfo(apis[1]), parameters) >>
             described == _generate_plan_description(execution_steps, reply)
         IN  [steps |-> execution_steps,
              description |-> IF described.raises
                              THEN _generate_simple_plan_description(execution_steps)
                              ELSE described.text]

-----------------------------------------------------------------------------
(* Texts.  A text the program builds is a record [kind, arg]; a text of    *)
(* the model is known by the prompt that asked for it.                     *)

Text(kind, arg) == [kind |-> kind, arg |-> arg]

\* a user utterance as the history keeps it: the history is only read to
\* build prompts, so its user entries are kept without their wording
UserText(user_input) == Text("user", "")

\* faulty variant: the message does not quote the user
NotSureTextWithoutQuote(user_input) == Text("I'm not sure how to help with", "")

\* ai_agent.py:101-104
NotSureText(user_input) == Text("I'm not sure how to help with", user_input)

\* the model's answer to the clarification prompt
QuestionText == Text("question", "model")

\* ai_agent.py:212-217: the f-string begins with a line break, which is kept
\* as the text's lead
PlanPromptText(description) ==
    [lead |-> "\n", kind |-> "Based on your request, here's what I'll do",
     arg |-> description]

\* str.strip (ai_agent.py:220): the text without the white space at its
\* ends; no text the program builds ends in white space
strip(text) == [f \in DOMAIN text \ { "lead" } |-> text[f]]

\* ai_agent.py:285
CancelText == Text("I've cancelled the operation", "")

\* ai_agent.py:73 and ai_agent.py:280
ApologyText(error) == Text("Sorry, I encountered an error", error)

\* ai_agent.py:258
StartOverText == Text("Let's start over", "")

\* the formatter's answers
ResultsText(which) == Text("results", which)

NoText == Text("None", "")

\* str(e) of the exception of a failed model call
ModelError == "model call failed"

-----------------------------------------------------------------------------
(* Result formatter: ResultFormatter.format_results.                       *)

\* all(result.get("success", False) for result in execution_results)
AllSuccessful(execution_results) ==
    \A i \in DOMAIN execution_results : execution_results[i].success

format_results(execution_results, reply) ==
    IF execution_results = << >>
    THEN [raises |-> FALSE, text |-> ResultsText("unable")]
    ELSE IF reply.raises
         THEN [raises |-> TRUE, text |-> NoText]
         ELSE IF AllSuccessful(execution_results)
              THEN [raises |-> FALSE, text |-> ResultsText("success report")]
              ELSE [raises |-> FALSE, text |-> ResultsText("error report")]

-----------------------------------------------------------------------------
(* The confirmation reply is text: a tuple of characters.                  *)

LowerChar(c) ==
    CASE c = "Y" -> "y"
      [] c = "E" -> "e"
      [] c = "S" -> "s"
      [] c = "N" -> "n"
      [] c = "O" -> "o"
      [] OTHER -> c

\* faulty variant: the reply is compared as it came
LowerTextUnchanged(t) == t

\* str.lower()
LowerText(t) == [i \in DOMAIN t |-> LowerChar(t[i])]

Whitespace == {" ", "\n"}

RECURSIVE StripLeft(_)
StripLeft(t) ==
    IF t # << >> /\ Head(t) \in Whitespace THEN StripLeft(Tail(t)) ELSE t

RECURSIVE StripRight(_)
StripRight(t) ==
    IF t # << >> /\ t[Len(t)] \in Whitespace
    THEN StripRight(SubSeq(t, 1, Len(t) - 1))
    ELSE t

\* str.strip()
Strip(t) == StripRight(StripLeft(t))

\* sub in t
Contains(t, sub) ==
    \E i \in 1..(Len(t) - Len(sub) + 1) : SubSeq(t, i, i + Len(sub) - 1) = sub

-----------------------------------------------------------------------------
(* Conversation controller: AIAgent, with ConversationManager, and the     *)
(* WebSocket endpoint of app.py that calls it.                             *)
(*                                                                         *)
(* The endpoint serves one session id, on which two WebSocket connections  *)
(* can be open.  Each connection runs its own handler coroutine; the agent *)
(* of the session id is shared.  A handler runs without interruption from  *)
(* one await to the next: the awaits of a turn that suspend it are the     *)
(* calls of the language model, so one action is the code between two of   *)
(* them.  What a component computed before its model call is kept in the   *)
(* frame of the suspended handler; what the controller reads after the     *)
(* call is read from the agent as it is then.                              *)
(*                                                                         *)
(* process_user_input raises nothing (its first statement cannot fail and  *)
(* the rest is inside its try), and a send_json that fails on a lost       *)
(* client fails again in the handler of app.py:111-117, so the "error"     *)
(* message is never delivered: a lost client is the Disconnect action.     *)

\* the session: the fields of AIAgent and the history
Self ==
    [current_state |-> current_state,
     current_intent |-> current_intent,
     matched_apis |-> matched_apis,
     collected_parameters |-> collected_parameters,
     missing_parameters |-> missing_parameters,
     execution_plan |-> execution_plan,
     conversation_history |-> conversation_history]

\* AIAgent.__init__ (ai_agent.py:33-39) and ConversationManager.__init__
NewAgent ==
    [current_state |-> "idle",
     current_intent |-> None,
     matched_apis |-> << >>,
     collected_parameters |-> EmptyDict,
     missing_parameters |-> << >>,
     execution_plan |-> None,
     conversation_history |-> << >>]

\* ConversationManager.add_message
add_message(self, role, content) ==
    [self EXCEPT !.conversation_history = Append(@, [role |-> role, content |-> content])]

\* what a call of process_user_input did: the components it called, the
\* names the reply of the model was stored under, the confirmation it
\* read, the simulated results; fresh are the pairs the model had given for
\* the intent of the session when the planner was called; raised names the
\* call or statement whose exception ended or changed the turn, failed says
\* that the except clause of process_user_input caught it
NoLog ==
    [calls |-> << >>, extracted_keys |-> {}, confirmation |-> << >>,
     results |-> << >>, fresh |-> {}, failed |-> FALSE, raised |-> ""]

\* the handler called a component; names are the parameters it was about
Call(log, fn, names) ==
    [log EXCEPT !.calls = Append(@, [fn |-> fn, names |-> names])]

Names(params) == [i \in DOMAIN params |-> params[i].name]

\* faulty variant: goes on to the plan with one parameter still missing
HasMissingOffByOne(self) == Len(self.missing_parameters) > 1

\* `if self.missing_parameters:` (lines 125 and 173)
HasMissing(self) == self.missing_parameters # << >>

\* a reply of process_user_response that json.loads gave as a list
\* (conversation_manager.py:118-128 return whatever the text parses to)
IsList(extracted_values) == "py" \in DOMAIN extracted_values

\* an element of such a list that dict.update can take as a key and a value
IsPair(item) == "name" \in DOMAIN item

\* the elements dict.update stores before it meets one it cannot convert
RECURSIVE StoredItems(_)
StoredItems(items) ==
    IF items = << >> \/ ~ IsPair(Head(items)) THEN << >>
    ELSE << Head(items) >> \o StoredItems(Tail(items))

\* a dict of the pairs of a list, a later pair replacing an earlier one
RECURSIVE DictOfItems(_)
DictOfItems(items) ==
    IF items = << >> THEN EmptyDict
    ELSE DictUpdate(DictOfItems(SubSeq(items, 1, Len(items) - 1)),
                    [k \in { items[Len(items)].name } |-> items[Len(items)].value])

\* what self.collected_parameters.update(extracted_values) stores
\* (ai_agent.py:161), for a dict and for a list
Stored(extracted_values) ==
    IF IsList(extracted_values)
    THEN DictOfItems(StoredItems(extracted_values.items))
    ELSE extracted_values

\* dict.update raises on the first element of a list that is not a pair
UpdateRaises(extracted_values) ==
    /\ IsList(extracted_values)
    /\ Len(StoredItems(extracted_values.items)) < Len(extracted_values.items)

Digits == << "0", "1", "2", "3", "4", "5", "6", "7", "8", "9" >>

\* str(e) of that exception; the elements are counted from 0
UpdateError(extracted_values) ==
    "cannot convert dictionary update sequence element #"
        \o Digits[Len(StoredItems(extracted_values.items)) + 1]
        \o " to a sequence"

\* the names `param_name not in extracted_values` (ai_agent.py:167) finds:
\* the keys of a dict; a list of pairs has no name among its elements
NamesFound(extracted_values) ==
    IF IsList(extracted_values) THEN { } ELSE DOMAIN extracted_values

\* lines 164-168: the entries of the missing list the reply did not name
UpdatedMissing(missing, extracted_values) ==
    SelectSeq(missing, LAMBDA p : p.name # "" /\ p.name \notin NamesFound(extracted_values))

FailedResult(api, error) == [api |-> api, success |-> FALSE, error |-> error]

\* ', '.join(names)
RECURSIVE JoinNames(_)
JoinNames(names) ==
    IF names = << >> THEN ""
    ELSE IF Len(names) = 1 THEN names[1]
    ELSE names[1] \o ", " \o JoinNames(Tail(names))

\* AIAgent._simulate_api_execution; None and the empty dict are falsy.  The
\* result of a successful call is random data and is left out.
_simulate_api_execution(self) ==
    IF self.execution_plan = None \/ self.execution_plan[1] = EmptyDict
    THEN << FailedResult("unknown", "No execution plan found") >>
    ELSE IF ParamGet(self.execution_plan[1], "details", EmptyDict) = EmptyDict
    THEN << FailedResult("unknown", "No execution details found") >>
    ELSE IF ParamGet(self.execution_plan[1].details, "api", "") = ""
    THEN << FailedResult("unknown", "No API path specified") >>
    ELSE IF get_api_by_path(self.execution_plan[1].details.api) = None
    THEN << FailedResult(self.execution_plan[1].details.api,
                         "API not found for path " \o self.execution_plan[1].details.api) >>
    ELSE
    LET details == self.execution_plan[1].details
        parameters == ParamGet(details, "parameters", EmptyDict)
        api_info == get_api_by_path(details.api)[1]
        missing_required ==
            SelectSeq(Names(SelectSeq(ParamGet(api_info, "parameters", << >>),
                                      LAMBDA p : ParamGet(p, "required", FALSE))),
                      LAMBDA param_name : param_name \notin DOMAIN parameters)
    IN  IF missing_required # << >>
        THEN << FailedResult(details.api,
                             "Missing required parameters: " \o JoinNames(missing_required)) >>
        ELSE << [api |-> details.api, success |-> TRUE] >>

-----------------------------------------------------------------------------
(* The environment: what the clients say and what the model replies.       *)

\* the text a client sends; the controller only quotes it
UserTexts == { "asdkjasd" }

\* the values the model extracts in the explored turns
ExtractValues ==
    { Val("str", "abc"), Val("list", "['x']") }

\* a key the model makes up
UndeclaredName == "bogus"

IntentReplies == { Raise } \cup { Reply(i) : i \in Intents }

\* the replies of the model that parse to a dict: over at most MaxKeys of
\* the names of the given parameters and a made-up one
DictReplies(params) ==
    { Reply(d) : d \in UNION { [S -> ExtractValues] :
                     S \in { T \in SUBSET (Range(Names(params)) \cup {UndeclaredName}) :
                               Cardinality(T) <= MaxKeys } } }

\* the elements of a reply that is a JSON list: a pair of a name and a
\* value, or a number
ListItems(params) ==
    { [name |-> n, value |-> Val("str", "abc")] :
        n \in Range(Names(params)) \cup {UndeclaredName} }
    \cup { Val("int", "5") }

\* what process_user_response can give: an exception, a dict, or a list of
\* at most MaxKeys elements
ResponseReplies(params) ==
    { Raise } \cup DictReplies(params) \cup
    { Reply([py |-> "list", items |-> items]) :
        items \in UNION { [1..n -> ListItems(params)] : n \in 1..MaxKeys } }

TextReplies == { Raise, Reply("text") }

ConfirmReplies ==
    { Raise } \cup
    { Reply(t) : t \in { << " ", "Y", "e", "s", "\n" >>, << "n", "o" >>,
                         << "e", "y", "e", "s" >>, << "y", " ", "e", "s" >> } }

-----------------------------------------------------------------------------
(* The endpoint and the handlers of its connections.                       *)

\* the session id the connections are opened on
SessionId == "s"

Connections == { "a", "b" }

\* what the properties read of the session a call started from
StartOf(self) ==
    [current_state |-> self.current_state,
     collected_parameters |-> self.collected_parameters,
     missing_parameters |-> self.missing_parameters]

\* the locals of a suspended call of process_user_input: its argument, the
\* arguments the component it waits in was called with (missing_params is
\* the list process_user_response wrote into its prompt), the simulated
\* results; and for the properties the session it started from, the
\* matched list its intent resolution gave, the confirmation reply it read
\* and what it did so far
NoFrame ==
    [user_input |-> "", apis |-> << >>, parameters |-> EmptyDict, missing_params |-> << >>,
     results |-> << >>, start |-> StartOf(NewAgent), resolved |-> None, confirm |-> Raise, log |-> NoLog]

ClosedConnection == [pc |-> "closed", frame |-> NoFrame, sent |-> None, state_then |-> ""]

\* record says which history is kept for the properties: "calls", what
\* each call of process_user_input did, or "messages", what was sent on
\* each connection
NoTransport ==
    [agent_instances |-> { }, started |-> 0, record |-> "messages",
     connections |-> [c \in Connections |-> ClosedConnection]]

\* both connections are accepted and wait for a message of their client
BothConnected ==
    [agent_instances |-> { SessionId }, started |-> 0, record |-> "calls",
     connections |-> [c \in Connections |-> [ClosedConnection EXCEPT !.pc = "receive_text"]]]

\* no call has just returned
NoTurn ==
    [n |-> 0, ended |-> FALSE, start |-> StartOf(NewAgent), user_input |-> "", resolved |-> None,
     confirm |-> Raise,
     stale |-> EmptyDict, extracted |-> { }]

NoOut == [response |-> NoText, log |-> NoLog]

\* AIAgent.__init__ and ConversationManager.__init__: the agent of the
\* session id, with two connections open on it (app.py:63-83)
Init ==
    /\ current_state = "idle"
    /\ current_intent = None
    /\ matched_apis = << >>
    /\ collected_parameters = EmptyDict
    /\ missing_parameters = << >>
    /\ execution_plan = None
    /\ conversation_history = << >>
    /\ turn = NoTurn
    /\ out = NoOut
    /\ transport = BothConnected

\* app.py:80-83
WelcomeMessage == [text |-> Text("Hello! How can I help you today?", ""), state |-> "idle"]

\* faulty variant: the context is filled in whatever the state
OutboundMessageWithContext(agent, response) ==
    [text |-> response,
     state |-> agent.current_state,
     context |-> [intent |-> agent.current_intent,
                  execution_plan |-> agent.execution_plan,
                  parameters |-> agent.collected_parameters]]

\* app.py:101-110: the message of a turn, built when process_user_input
\* has returned
OutboundMessage(agent, response) ==
    [text |-> response,
     state |-> agent.current_state,
     context |-> IF agent.current_state = "confirming_execution"
                 THEN [intent |-> agent.current_intent,
                       execution_plan |-> agent.execution_plan,
                       parameters |-> agent.collected_parameters]
                 ELSE EmptyDict]

\* what the replies of the model gave for the current intent and the
\* session held when it began
Memo == [stale |-> turn.stale, extracted |-> turn.extracted]

\* the pairs of memo that the session still holds
Held(memo, self) ==
    { p \in memo.extracted :
        /\ p[1] \in DOMAIN self.collected_parameters
        /\ self.collected_parameters[p[1]] = p[2] }

\* the pairs of a dict
Pairs(d) == { << k, d[k] >> : k \in DOMAIN d }

\* the fields of the shared agent after a piece of handler code
AgentBecomes(self) ==
    /\ current_state' = self.current_state
    /\ current_intent' = self.current_intent
    /\ matched_apis' = self.matched_apis
    /\ collected_parameters' = self.collected_parameters
    /\ missing_parameters' = self.missing_parameters
    /\ execution_plan' = self.execution_plan
    /\ conversation_history' = self.conversation_history

\* the frame as it is kept: without the history when messages are recorded
Locals(frame) ==
    IF transport.record = "calls" THEN frame
    ELSE [NoFrame EXCEPT !.user_input = frame.user_input, !.apis = frame.apis,
                         !.parameters = frame.parameters,
                         !.missing_params = frame.missing_params,
                         !.results = frame.results]

\* the handler of c waits for the model at place pc; started counts the
\* calls of process_user_input
Suspend(c, self, pc, frame, started, memo) ==
    /\ AgentBecomes(self)
    /\ transport' = [transport EXCEPT
                       !.started = started,
                       !.connections[c] = [@ EXCEPT !.pc = pc, !.frame = Locals(frame)]]
    /\ turn' = IF transport.record = "calls"
               THEN [NoTurn EXCEPT !.n = turn.n, !.stale = memo.stale,
                                   !.extracted = Held(memo, self)]
               ELSE NoTurn
    /\ out' = NoOut

\* process_user_input returns and app.py:101-110 sends the message of the
\* turn; state_then is the state of the agent at that moment
Return(c, self, response, frame, memo) ==
    /\ AgentBecomes(self)
    /\ transport' = [transport EXCEPT
                       !.connections[c] =
                           IF transport.record = "messages"
                           THEN [pc |-> "receive_text", frame |-> NoFrame,
                                 sent |-> Some(OutboundMessage(self, response)),
                                 state_then |-> self.current_state]
                           ELSE [ClosedConnection EXCEPT !.pc = "receive_text"]]
    /\ turn' = IF transport.record = "calls"
               THEN [n |-> turn.n + 1, ended |-> TRUE,
                     start |-> frame.start,
                     user_input |-> frame.user_input,
                     resolved |-> frame.resolved,
                     confirm |-> frame.confirm,
                     stale |-> memo.stale,
                     extracted |-> Held(memo, self)]
               ELSE NoTurn
    /\ out' = IF transport.record = "calls"
              THEN [response |-> response, log |-> frame.log]
              ELSE NoOut

\* faulty variant: the except clause does not reset the state
ExceptKeepsState(c, self, error, frame, raised, memo) ==
    Return(c, self, ApologyText(error),
           [frame EXCEPT !.log.failed = TRUE, !.log.raised = raised], memo)

\* the except clause of process_user_input (ai_agent.py:67-73); raised is
\* the call or statement the exception came from
Except(c, self, error, frame, raised, memo) ==
    Return(c, [self EXCEPT !.current_state = "idle"], ApologyText(error),
           [frame EXCEPT !.log.failed = TRUE, !.log.raised = raised], memo)

\* ai_agent.py:199-220 once the planner has returned: the history gets the
\* response as built (line 219) and the caller the stripped one (line 220)
PlanReady(c, self, plan, frame, memo) ==
    Return(c,
           add_message([self EXCEPT !.execution_plan = Some(plan),
                                    !.current_state = "confirming_execution"],
                       "assistant", PlanPromptText(plan.description)),
           strip(PlanPromptText(plan.description)), frame, memo)

\* the planner is called
PlannerCalled(self, frame, memo) ==
    [frame EXCEPT !.apis = self.matched_apis,
                  !.parameters = self.collected_parameters,
                  !.log = [Call(@, "create_execution_plan", Names(self.missing_parameters))
                             EXCEPT !.fresh = memo.extracted]]

\* _prepare_execution up to the description call of the planner: the steps
\* are built from the agent as it is now; a plan without steps is returned
\* without a model call
PrepareExecution(c, self, frame, memo) ==
    IF create_execution_plan(self.matched_apis, self.collected_parameters, Raise).steps
          = << >>
    THEN PlanReady(c, self,
                   create_execution_plan(self.matched_apis, self.collected_parameters, Raise),
                   PlannerCalled(self, frame, memo), memo)
    ELSE Suspend(c, self, "create_execution_plan", PlannerCalled(self, frame, memo),
                 transport.started, memo)

\* ai_agent.py:125-139 and 173-182: the question is asked for, about the
\* parameters its prompt lists (conversation_manager.py:39-59), or the plan
\* is prepared; state is the state the branch of the question sets first
QuestionOrPlan(c, self, state, frame, memo) ==
    IF HasMissing(self)
    THEN Suspend(c, [self EXCEPT !.current_state = state],
                 "generate_clarification_questions",
                 [frame EXCEPT !.log = Call(@, "generate_clarification_questions",
                                            Names(self.missing_parameters))],
                 transport.started, memo)
    ELSE PrepareExecution(c, self, frame, memo)

\* ai_agent.py:120-123: the extraction is stored
StoreExtraction(self, param_extraction) ==
    [self EXCEPT
       !.collected_parameters = param_extraction.valid_params,
       !.missing_parameters = param_extraction.missing_params]

\* ai_agent.py:120-139 once extract_parameters has returned; given is the
\* dict the model answered, empty when it was not asked
ExtractionReady(c, self, param_extraction, frame, given, memo) ==
    IF param_extraction.raises
    THEN Except(c, self, ModelError, frame, "extract_parameters", memo)
    ELSE QuestionOrPlan(c, StoreExtraction(self, param_extraction),
                        "gathering_parameters",
                        [frame EXCEPT !.log.extracted_keys = DOMAIN given],
                        [memo EXCEPT !.extracted = @ \cup Pairs(given)])

\* ai_agent.py:97-106: no API matched
ReturnNotSure(c, self, frame, memo) ==
    Return(c,
           add_message([self EXCEPT !.current_state = "idle"],
                       "assistant", NotSureText(frame.user_input)),
           NotSureText(frame.user_input), frame, memo)

\* ai_agent.py:94-115 once analyze_intent has returned: extract_parameters
\* asks the model only for an API that declares parameters
IntentReady(c, self, frame, memo) ==
    IF self.matched_apis = << >>
    THEN ReturnNotSure(c, self, frame, memo)
    ELSE IF _get_required_parameters(self.matched_apis) = << >>
    THEN ExtractionReady(c, self, extract_parameters(self.matched_apis, Raise),
                         [frame EXCEPT !.log = Call(@, "extract_parameters", << >>)],
                         EmptyDict, memo)
    ELSE Suspend(c, self, "extract_parameters",
                 [frame EXCEPT !.apis = self.matched_apis,
                               !.log = Call(@, "extract_parameters", << >>)],
                 transport.started, memo)

\* app.py:63-83: the connection is accepted, the agent of the session id is
\* made if there is none, and the welcome message is sent
Connect(c) ==
    /\ transport.connections[c].pc = "closed"
    /\ IF SessionId \in transport.agent_instances
       THEN UNCHANGED << current_state, current_intent, matched_apis,
                         collected_parameters, missing_parameters, execution_plan,
                         conversation_history >>
       ELSE AgentBecomes(NewAgent)
    /\ transport' = [transport EXCEPT
                       !.agent_instances = @ \cup { SessionId },
                       !.connections[c] =
                           [pc |-> "receive_text", frame |-> NoFrame,
                            sent |-> Some(WelcomeMessage),
                            state_then |-> IF SessionId \in transport.agent_instances
                                           THEN current_state
                                           ELSE NewAgent.current_state]]
    /\ UNCHANGED << turn, out >>

\* app.py:121-124: the handler ends while it waits for a message: the
\* client is gone, or it sent a JSON text that is not an object, for which
\* line 91 raises
Disconnect(c) ==
    /\ transport.connections[c].pc = "receive_text"
    /\ transport' = [transport EXCEPT !.connections[c] = ClosedConnection]
    /\ UNCHANGED << current_state, current_intent, matched_apis, collected_parameters,
                    missing_parameters, execution_plan, conversation_history >>
    /\ UNCHANGED << turn, out >>

\* faulty variant: a state that is none of the three is left as it is
DispatchIgnoresUnknown(self, user_input) ==
    CASE self.current_state = "gathering_parameters" ->
             [self |-> add_message(self, "user", UserText(user_input)),
              pc |-> "process_user_response",
              log |-> Call(NoLog, "process_user_response", Names(self.missing_parameters))]
      [] self.current_state = "confirming_execution" ->
             [self |-> self, pc |-> "generate_content_async",
              log |-> Call(NoLog, "generate_content_async", << >>)]
      [] OTHER ->
             [self |-> self, pc |-> "analyze_intent",
              log |-> Call(NoLog, "analyze_intent", << >>)]

\* the dispatch of process_user_input up to the first model call
\* (ai_agent.py:57-66 and 87; 153 with conversation_manager.py:85; 241):
\* the session, the call the handler waits in, and the record of it
Dispatch(self, user_input) ==
    CASE self.current_state = "gathering_parameters" ->
             [self |-> add_message(self, "user", UserText(user_input)),
              pc |-> "process_user_response",
              log |-> Call(NoLog, "process_user_response", Names(self.missing_parameters))]
      [] self.current_state = "confirming_execution" ->
             [self |-> self, pc |-> "generate_content_async",
              log |-> Call(NoLog, "generate_content_async", << >>)]
      [] OTHER ->
             [self |-> [self EXCEPT !.current_state = "idle"], pc |-> "analyze_intent",
              log |-> Call(NoLog, "analyze_intent", << >>)]

\* the handler of c is inside process_user_input; process_user_response
\* is called with the missing list of the session (ai_agent.py:153-156)
Dispatched(c, dispatched, user_text) ==
    Suspend(c, dispatched.self, dispatched.pc,
            [NoFrame EXCEPT !.user_input = user_text,
                            !.missing_params = IF dispatched.pc = "process_user_response"
                                               THEN missing_parameters ELSE << >>,
                            !.start = StartOf(Self),
                            !.log = dispatched.log],
            transport.started + 1, Memo)

\* app.py:87-98: a message arrives and process_user_input is called, which
\* first appends the user's text to the history (ai_agent.py:51)
ReceiveText(c) ==
    /\ transport.connections[c].pc = "receive_text"
    /\ transport.started < MaxTurns
    /\ \E user_text \in UserTexts :
          Dispatched(c, Dispatch(add_message(Self, "user", UserText(user_text)), user_text),
                     user_text)

\* the model answers analyze_intent, or the call raises; a new intent
\* begins with what the session holds
IntentReturns(c) ==
    /\ transport.connections[c].pc = "analyze_intent"
    /\ \E reply \in IntentReplies :
          IF reply.raises
          THEN Except(c, Self, ModelError, transport.connections[c].frame,
                      "analyze_intent", Memo)
          ELSE IntentReady(c,
                           [Self EXCEPT
                              !.current_intent = Some(reply.value[1]),
                              !.matched_apis = find_apis_by_intent(reply.value[1])],
                           [transport.connections[c].frame EXCEPT
                              !.resolved = Some(find_apis_by_intent(reply.value[1]))],
                           [stale |-> collected_parameters, extracted |-> { }])

\* the model answers extract_parameters, which validates the reply against
\* the parameters of the matched list it was called with
ExtractReturns(c) ==
    /\ transport.connections[c].pc = "extract_parameters"
    /\ \E reply \in { Raise } \cup DictReplies(
                        _get_required_parameters(transport.connections[c].frame.apis)) :
          ExtractionReady(c, Self,
                          extract_parameters(transport.connections[c].frame.apis, reply),
                          transport.connections[c].frame,
                          IF reply.raises THEN EmptyDict ELSE reply.value[1],
                          Memo)

\* ai_agent.py:158-182: the value process_user_response returned is stored
\* in the agent as it is now; an element of a list that is not a pair ends
\* the turn in the except clause, after the elements before it were stored
StoreResponse(c, self, extracted_values, frame) ==
    IF UpdateRaises(extracted_values)
    THEN Except(c,
                [self EXCEPT !.collected_parameters =
                                 DictUpdate(@, Stored(extracted_values))],
                UpdateError(extracted_values),
                [frame EXCEPT !.missing_params = << >>,
                              !.log.extracted_keys = DOMAIN Stored(extracted_values)],
                "collected_parameters.update",
                [Memo EXCEPT !.extracted = @ \cup Pairs(Stored(extracted_values))])
    ELSE QuestionOrPlan(c,
                        [self EXCEPT
                           !.collected_parameters =
                               DictUpdate(@, Stored(extracted_values)),
                           !.missing_parameters = UpdatedMissing(@, extracted_values)],
                        self.current_state,
                        [frame EXCEPT !.missing_params = << >>,
                                      !.log.extracted_keys = DOMAIN Stored(extracted_values)],
                        [Memo EXCEPT !.extracted = @ \cup Pairs(Stored(extracted_values))])

\* the model answers process_user_response (conversation_manager.py:111-128)
\* about the parameters it was asked for, the missing list the handler
\* passed when it called (ai_agent.py:153-156)
ResponseReturns(c) ==
    /\ transport.connections[c].pc = "process_user_response"
    /\ \E reply \in ResponseReplies(transport.connections[c].frame.missing_params) :
          IF reply.raises
          THEN Except(c, Self, ModelError, transport.connections[c].frame,
                      "process_user_response", Memo)
          ELSE StoreResponse(c, Self, reply.value[1], transport.connections[c].frame)

\* the model answers generate_clarification_questions
\* (conversation_manager.py:61-72)
QuestionReturns(c) ==
    /\ transport.connections[c].pc = "generate_clarification_questions"
    /\ \E reply \in TextReplies :
          IF reply.raises
          THEN Except(c, Self, ModelError, transport.connections[c].frame,
                      "generate_clarification_questions", Memo)
          ELSE Return(c, add_message(Self, "assistant", QuestionText), QuestionText,
                      transport.connections[c].frame, Memo)

\* the description call of the planner ends (execution_planner.py:109-121):
\* the plan has the steps built before the call; an exception of the call
\* is caught in the planner
DescriptionReturns(c) ==
    /\ transport.connections[c].pc = "create_execution_plan"
    /\ \E reply \in TextReplies :
          PlanReady(c, Self,
                    create_execution_plan(transport.connections[c].frame.apis,
                                          transport.connections[c].frame.parameters,
                                          reply),
                    [transport.connections[c].frame EXCEPT !.log.raised =
                        IF reply.raises THEN "_generate_plan_description" ELSE @],
                    Memo)

\* ai_agent.py:249-288 once the model has classified the confirmation
Confirmed(c, self, confirmation, frame) ==
    IF Contains(confirmation, << "y", "e", "s" >>)
    THEN IF self.execution_plan = None
         THEN Return(c, self, StartOverText, frame, Memo)
         ELSE Suspend(c, self, "format_results",
                      [frame EXCEPT
                         !.results = _simulate_api_execution(self),
                         !.log = [Call(Call(@, "_simulate_api_execution", << >>),
                                       "format_results", << >>)
                                    EXCEPT !.results = _simulate_api_execution(self)]],
                      transport.started, Memo)
    ELSE Return(c,
                add_message([self EXCEPT !.current_state = "idle"],
                            "assistant", CancelText),
                CancelText, frame, Memo)

\* the model answers the confirmation prompt (ai_agent.py:241-249)
ConfirmationReturns(c) ==
    /\ transport.connections[c].pc = "generate_content_async"
    /\ \E reply \in ConfirmReplies :
          IF reply.raises
          THEN Except(c, Self, ModelError, transport.connections[c].frame,
                      "generate_content_async", Memo)
          ELSE Confirmed(c, Self, LowerText(Strip(reply.value[1])),
                         [transport.connections[c].frame EXCEPT
                            !.confirm = reply,
                            !.log.confirmation = LowerText(Strip(reply.value[1]))])

\* format_results answers or raises (ai_agent.py:264-280): the state is
\* idle either way, and the apology is not added to the history
FormatReturns(c) ==
    /\ transport.connections[c].pc = "format_results"
    /\ \E reply \in TextReplies :
          IF format_results(transport.connections[c].frame.results, reply).raises
          THEN Return(c, [Self EXCEPT !.current_state = "idle"], ApologyText(ModelError),
                      [transport.connections[c].frame EXCEPT
                         !.log.failed = TRUE, !.log.raised = "format_results"],
                      Memo)
          ELSE Return(c,
                      add_message([Self EXCEPT !.current_state = "idle"], "assistant",
                                  format_results(transport.connections[c].frame.results,
                                                 reply).text),
                      format_results(transport.connections[c].frame.results, reply).text,
                      transport.connections[c].frame, Memo)

-----------------------------------------------------------------------------
(* The state machine.                                                      *)

\* the steps of the handler of connection c inside process_user_input
Step(c) ==
    \/ ReceiveText(c)
    \/ IntentReturns(c)
    \/ ExtractReturns(c)
    \/ ResponseReturns(c)
    \/ QuestionReturns(c)
    \/ DescriptionReturns(c)
    \/ ConfirmationReturns(c)
    \/ FormatReturns(c)

Next == \E c \in Connections : Step(c)

\* the session with two connections open on it, and what each call of
\* process_user_input did
Spec == Init /\ [][Next]_vars

\* no connection yet
InitTransport ==
    /\ current_state = "idle"
    /\ current_intent = None
    /\ matched_apis = << >>
    /\ collected_parameters = EmptyDict
    /\ missing_parameters = << >>
    /\ execution_plan = None
    /\ conversation_history = << >>
    /\ turn = NoTurn
    /\ out = NoOut
    /\ transport = NoTransport

NextTransport ==
    \E c \in Connections : Connect(c) \/ Disconnect(c) \/ Step(c)

\* the endpoint from its start, and what was sent on each connection
SpecTransport == InitTransport /\ [][NextTransport]_vars
-----------------------------------------------------------------------------
(* The components called on their own: ParameterManager.extract_parameters *)
(* and ExecutionPlanner.create_execution_plan, by two tasks of one event   *)
(* loop, on arguments drawn from bounded sets.  A call runs up to the      *)
(* await of the language model, where other calls may begin or end, and    *)
(* goes on when the model has replied; a call that does not ask the model  *)
(* returns in its first step.  turn holds the arguments, which the tasks   *)
(* share, and for each task the call it made last: the arguments it was    *)
(* made with, whether it waits for the model, the reply and what the call  *)
(* returned.  The agent is the one just constructed and stays so.          *)

\* a match list as find_apis_by_intent returns it, with api_id first
Matched(api_id) == << [id |-> api_id, match_score |-> 4] >>

\* matched APIs that are not in the catalog and declare dependencies, by path
ApiA == [id |-> "A", path |-> "/api/A", dependencies |-> << "/api/B" >>]

ApiB == [id |-> "B", path |-> "/api/B", dependencies |-> << >>]

\* the last two lists: C depends on A and B, and A and B on each other
ComponentApiLists ==
    { << >>,
      << [path |-> "/x"] >>,
      << NotADict >>,
      Matched("add_professors") \o << NotADict >>,
      Matched("add_professors"),
      Matched("create_general_post"),
      Matched("rate_course"),
      Matched("logout"),
      << ApiA, ApiB >>,
      << ApiB, ApiA >>,
      << [id |-> "C", path |-> "/api/C", dependencies |-> << "/api/A", "/api/B" >>],
         ApiA, ApiB >>,
      << ApiA, [ApiB EXCEPT !.dependencies = << "/api/A" >>] >> }

\* the dicts over at most MaxKeys names, with values of the given set: the
\* names the first API declares, when it is a dict, and an undeclared one
ParameterMaps(apis, values) ==
    UNION { [S -> values] :
              S \in { T \in SUBSET ((IF _get_required_parameters(apis) = NotADictError
                                     THEN { }
                                     ELSE Range(Names(_get_required_parameters(apis))))
                                    \cup {UndeclaredName}) :
                        Cardinality(T) <= MaxKeys } }

\* the tasks that call the components
Tasks == { "a", "b" }

InitExtraction ==
    /\ current_state = NewAgent.current_state
    /\ current_intent = NewAgent.current_intent
    /\ matched_apis = NewAgent.matched_apis
    /\ collected_parameters = NewAgent.collected_parameters
    /\ missing_parameters = NewAgent.missing_parameters
    /\ execution_plan = NewAgent.execution_plan
    /\ conversation_history = NewAgent.conversation_history
    /\ turn \in { [matched_apis |-> apis,
                     tasks |-> [t \in Tasks |->
                                  [call |-> "", awaiting |-> FALSE, matched_apis |-> << >>,
                                   reply |-> Raise, param_extraction |-> None]]] :
                    apis \in ComponentApiLists }
    /\ out = [response |-> NoText, log |-> NoLog]
    /\ transport = NoTransport

\* parameter_manager.py:47-111: task t calls extract_parameters on the
\* matched list.  The declared parameters are read from the list before the
\* model is asked; without any the call returns, and on a primary match
\* that is not a dict it raises, without asking the model.
ExtractCall(t) ==
    /\ ~ turn.tasks[t].awaiting
    /\ turn' = [turn EXCEPT !.tasks[t] =
                  [call |-> "extract_parameters",
                   awaiting |-> extract_parameters(turn.matched_apis, Raise).called_model,
                   matched_apis |-> turn.matched_apis,
                   reply |-> Raise,
                   param_extraction |->
                       IF extract_parameters(turn.matched_apis, Raise).called_model
                       THEN None
                       ELSE Some(extract_parameters(turn.matched_apis, Raise))]]
    /\ UNCHANGED << transport, current_state, current_intent, matched_apis, collected_parameters,
                    missing_parameters, execution_plan, conversation_history, out >>

\* parameter_manager.py:111-154: the model replies to the call of task t,
\* or its call raises, and extract_parameters validates the reply against
\* the parameters it read when it was called
ExtractReturn(t) ==
    /\ turn.tasks[t].call = "extract_parameters"
    /\ turn.tasks[t].awaiting
    /\ \E reply \in { Raise } \cup
                     { Reply(d) : d \in ParameterMaps(turn.tasks[t].matched_apis,
                                                      ExtractValues \cup { Val("str", "42") }) } :
          turn' = [turn EXCEPT !.tasks[t] =
                     [@ EXCEPT !.awaiting = FALSE,
                               !.reply = reply,
                               !.param_extraction =
                                   Some(extract_parameters(turn.tasks[t].matched_apis, reply))]]
    /\ UNCHANGED << transport, current_state, current_intent, matched_apis, collected_parameters,
                    missing_parameters, execution_plan, conversation_history, out >>

NextExtraction == \E t \in Tasks : ExtractCall(t) \/ ExtractReturn(t)

SpecExtraction == InitExtraction /\ [][NextExtraction]_vars

\* how often the caller changes the parameter map
MaxChanges == 1

InitComponents ==
    /\ current_state = NewAgent.current_state
    /\ current_intent = NewAgent.current_intent
    /\ matched_apis = NewAgent.matched_apis
    /\ collected_parameters = NewAgent.collected_parameters
    /\ missing_parameters = NewAgent.missing_parameters
    /\ execution_plan = NewAgent.execution_plan
    /\ conversation_history = NewAgent.conversation_history
    /\ \E apis \in ComponentApiLists :
          \E parameters \in ParameterMaps(apis, ExtractValues) :
              turn = [matched_apis |-> apis, parameters |-> parameters, changes |-> 0,
                      tasks |-> [t \in Tasks |->
                                   [call |-> "", awaiting |-> FALSE, called_model |-> FALSE,
                                    matched_apis |-> << >>, parameters |-> EmptyDict,
                                    execution_steps |-> << >>, reply |-> Raise,
                                    plan |-> None, described |-> None]]]
    /\ out = [response |-> NoText, log |-> NoLog]
    /\ transport = NoTransport

\* execution_planner.py:19-110: task t calls create_execution_plan on the
\* matched list and the parameter map.  The steps are built from the
\* arguments before the description is asked for (line 110, which waits for
\* the model at line 206); a fallback plan is returned without a model call.
PlanCall(t) ==
    /\ ~ turn.tasks[t].awaiting
    /\ turn' = [turn EXCEPT !.tasks[t] =
                  [call |-> "create_execution_plan",
                   awaiting |-> create_execution_plan(turn.matched_apis, turn.parameters,
                                                      Reply("text")).steps # << >>,
                   called_model |-> create_execution_plan(turn.matched_apis, turn.parameters,
                                                          Reply("text")).steps # << >>,
                   matched_apis |-> turn.matched_apis,
                   parameters |-> turn.parameters,
                   execution_steps |-> create_execution_plan(turn.matched_apis, turn.parameters,
                                                             Reply("text")).steps,
                   reply |-> Raise,
                   plan |-> IF create_execution_plan(turn.matched_apis, turn.parameters,
                                                     Reply("text")).steps # << >>
                            THEN None
                            ELSE Some(create_execution_plan(turn.matched_apis, turn.parameters,
                                                            Reply("text"))),
                   described |-> None]]
    /\ UNCHANGED << transport, current_state, current_intent, matched_apis, collected_parameters,
                    missing_parameters, execution_plan, conversation_history, out >>

\* execution_planner.py:110-121: the description call of the planner call
\* of task t ends; the plan has the steps built when the planner was called
PlanReturn(t) ==
    /\ turn.tasks[t].call = "create_execution_plan"
    /\ turn.tasks[t].awaiting
    /\ \E reply \in TextReplies :
          turn' = [turn EXCEPT !.tasks[t] =
                     [@ EXCEPT !.awaiting = FALSE,
                               !.reply = reply,
                               !.plan = Some(create_execution_plan(
                                                 turn.tasks[t].matched_apis,
                                                 turn.tasks[t].parameters, reply))]]
    /\ UNCHANGED << transport, current_state, current_intent, matched_apis, collected_parameters,
                    missing_parameters, execution_plan, conversation_history, out >>

\* execution_planner.py:160-206: task t calls _generate_plan_description on
\* its own, on the empty step list or on the steps of a plan a task holds;
\* for the empty list it returns the fixed sentence without a model call
DescribeCall(t) ==
    /\ ~ turn.tasks[t].awaiting
    /\ \E execution_steps \in
            { << >> } \cup { turn.tasks[u].plan[1].steps :
                                u \in { v \in Tasks : turn.tasks[v].plan # None } } :
          turn' = [turn EXCEPT !.tasks[t] =
                     [call |-> "_generate_plan_description",
                      awaiting |-> execution_steps # << >>,
                      called_model |-> execution_steps # << >>,
                      matched_apis |-> << >>,
                      parameters |-> EmptyDict,
                      execution_steps |-> execution_steps,
                      reply |-> Raise,
                      plan |-> None,
                      described |-> IF execution_steps # << >> THEN None
                                    ELSE Some(_generate_plan_description(execution_steps,
                                                                         Raise))]]
    /\ UNCHANGED << transport, current_state, current_intent, matched_apis, collected_parameters,
                    missing_parameters, execution_plan, conversation_history, out >>

\* execution_planner.py:206-214: the model replies to the description call
\* of task t, or its call raises and so does _generate_plan_description
DescribeReturn(t) ==
    /\ turn.tasks[t].call = "_generate_plan_description"
    /\ turn.tasks[t].awaiting
    /\ \E reply \in TextReplies :
          turn' = [turn EXCEPT !.tasks[t] =
                     [@ EXCEPT !.awaiting = FALSE,
                               !.reply = reply,
                               !.described = Some(_generate_plan_description(
                                                      turn.tasks[t].execution_steps,
                                                      reply))]]
    /\ UNCHANGED << transport, current_state, current_intent, matched_apis, collected_parameters,
                    missing_parameters, execution_plan, conversation_history, out >>

\* ai_agent.py:161: the caller stores a value in the parameter map, the dict
\* it passes to the planner (196-198), also while a planner call waits
ArgumentsChange ==
    /\ turn.changes < MaxChanges
    /\ \E d \in ParameterMaps(turn.matched_apis, ExtractValues) :
          /\ Cardinality(DOMAIN d) = 1
          /\ Cardinality(DOMAIN DictUpdate(turn.parameters, d)) <= MaxKeys
          /\ DictUpdate(turn.parameters, d) # turn.parameters
          /\ turn' = [turn EXCEPT !.parameters = DictUpdate(turn.parameters, d),
                                  !.changes = @ + 1]
    /\ UNCHANGED << transport, current_state, current_intent, matched_apis, collected_parameters,
                    missing_parameters, execution_plan, conversation_history, out >>

NextComponents ==
    \/ \E t \in Tasks : PlanCall(t) \/ PlanReturn(t) \/ DescribeCall(t) \/ DescribeReturn(t)
    \/ ArgumentsChange

SpecComponents == InitComponents /\ [][NextComponents]_vars


-----------------------------------------------------------------------------
(* APIKnowledgeBase.find_apis_by_intent called on its own, on the intents  *)
(* of at most MaxWords words of the vocabulary.  turn holds the argument   *)
(* and, after the call, the returned list.                                 *)

\* the words the intents are made of
Vocabulary == DOMAIN WordTerms \cup { "Logout" }

\* the intents of at most MaxWords words
IntentArguments == UNION { [1..n -> Vocabulary] : n \in 0..MaxWords }

InitRanking ==
    /\ current_state = NewAgent.current_state
    /\ current_intent = NewAgent.current_intent
    /\ matched_apis = NewAgent.matched_apis
    /\ collected_parameters = NewAgent.collected_parameters
    /\ missing_parameters = NewAgent.missing_parameters
    /\ execution_plan = NewAgent.execution_plan
    /\ conversation_history = NewAgent.conversation_history
    /\ turn \in { [call |-> "", intent |-> intent, result |-> None] :
                    intent \in IntentArguments }
    /\ out = [response |-> NoText, log |-> NoLog]
    /\ transport = NoTransport

\* api_knowledge_base.py: the ranking of the catalog for one intent
RankCall ==
    /\ turn.call = ""
    /\ turn' = [turn EXCEPT !.call = "find_apis_by_intent",
                            !.result = Some(find_apis_by_intent(turn.intent))]
    /\ UNCHANGED << transport, current_state, current_intent, matched_apis, collected_parameters,
                    missing_parameters, execution_plan, conversation_history, out >>

NextRanking == RankCall

SpecRanking == InitRanking /\ [][NextRanking]_vars


-----------------------------------------------------------------------------
(* ParameterManager._validate_param_value called on its own, on a value    *)
(* and a parameter definition drawn from bounded sets.  turn holds the     *)
(* arguments and, after the call, the returned dict.                       *)

\* the candidate values: None, blank and other texts, and values of the
\* other JSON types
CandidateValues ==
    { Val("NoneType", "None"), Val("list", "['x']"), Val("dict", "{'a': 1}"),
      Val("int", "5"), Val("float", "4.5"), Val("bool", "True") }
    \cup { Val("str", t) : t \in { "", " ", "abc", "42", "4.5", "true",
                                    "a,b", "[1, 2]", "{}" } }

\* the types a parameter definition declares
ParameterTypes == { "string", "number", "boolean", "array", "object", "File" }

ParameterDefinitions ==
    { [name |-> "p", type |-> t, required |-> r] :
        t \in ParameterTypes, r \in BOOLEAN }
    \cup { [name |-> "p", type |-> "number", required |-> r, integer |-> TRUE] :
             r \in BOOLEAN }

InitValidation ==
    /\ current_state = "idle"
    /\ current_intent = None
    /\ matched_apis = << >>
    /\ collected_parameters = EmptyDict
    /\ missing_parameters = << >>
    /\ execution_plan = None
    /\ conversation_history = << >>
    /\ turn \in { [call |-> "", value |-> v, param_definition |-> d, result |-> None] :
                    v \in CandidateValues, d \in ParameterDefinitions }
    /\ out = [response |-> NoText, log |-> NoLog]
    /\ transport = NoTransport

\* parameter_manager.py:178: the validation of one candidate
ValidateCall ==
    /\ turn.call = ""
    /\ turn' = [turn EXCEPT
                  !.call = "_validate_param_value",
                  !.result = Some(_validate_param_value(turn.value, turn.param_definition))]
    /\ UNCHANGED << transport, current_state, current_intent, matched_apis, collected_parameters,
                    missing_parameters, execution_plan, conversation_history, out >>

NextValidation == ValidateCall

SpecValidation == InitValidation /\ [][NextValidation]_vars
-----------------------------------------------------------------------------
(* Properties.                                                             *)

States == { "idle", "gathering_parameters", "confirming_execution" }

\* state values that are none of the three; "error" is the value app.py:116
\* reports to the client
UnknownStates == { "error" }

\* a call of process_user_input has just returned: turn and out tell of it,
\* and the session is as it left it
Ended == turn.ended

Called(fn) == \E i \in DOMAIN out.log.calls : out.log.calls[i].fn = fn

CalledWith(fn, names) ==
    \E i \in DOMAIN out.log.calls :
        out.log.calls[i].fn = fn /\ out.log.calls[i].names = names

\* the declared required parameter names of the primary matched API
RequiredNames ==
    { p.name : p \in { q \in Range(_get_required_parameters(matched_apis)) : q.required } }

\* "yes" in reply.lower(), spelled out on the characters
SaysYes(reply) ==
    \E i \in 1..(Len(reply) - 2) :
        /\ reply[i] \in {"y", "Y"}
        /\ reply[i + 1] \in {"e", "E"}
        /\ reply[i + 2] \in {"s", "S"}

\* C1 as stated: after any sequence of turns, failed ones included, no
\* parameter name is both a key of collected_parameters and the name of an
\* entry of missing_parameters.
C1_CollectedAndMissingDisjoint ==
    Ended =>
        \A i \in DOMAIN missing_parameters :
            missing_parameters[i].name \notin DOMAIN collected_parameters

\* the calls of the planner that the handlers have made: in the call that
\* has just returned and in the calls that wait for the model
PlannerCalls ==
    { out.log.calls[i] : i \in { j \in DOMAIN out.log.calls :
                                    out.log.calls[j].fn = "create_execution_plan" } }
    \cup UNION { { transport.connections[c].frame.log.calls[i] :
                      i \in { j \in DOMAIN transport.connections[c].frame.log.calls :
                                 transport.connections[c].frame.log.calls[j].fn
                                     = "create_execution_plan" } } :
                  c \in Connections }

\* C2: create_execution_plan is called only when the missing_parameters
\* list of the session is empty at that point, and the turn that called it
\* ends in confirming_execution.
C2_PlanOnlyWhenNothingMissing ==
    /\ \A call \in PlannerCalls : call.names = << >>
    /\ (Ended /\ Called("create_execution_plan")) =>
          current_state = "confirming_execution"

\* a gathering turn received the last missing value and built the plan
C2_Witness ==
    /\ Ended
    /\ turn.start.current_state = "gathering_parameters"
    /\ turn.start.missing_parameters # << >>
    /\ Called("create_execution_plan")
    /\ current_state = "confirming_execution"

\* C3: current_state is always one of the three states, and from any
\* session the program reaches, a call that starts with another state
\* value is dispatched exactly as the same call started in idle: the state
\* is idle and the handler waits in analyze_intent of the initial-input
\* handling, with the same session otherwise.
C3_ThreeStatesAndDefensiveReset ==
    /\ current_state \in States
    /\ \A s \in UnknownStates, u \in UserTexts :
          /\ Dispatch([Self EXCEPT !.current_state = s], u)
                = Dispatch([Self EXCEPT !.current_state = "idle"], u)
          /\ Dispatch([Self EXCEPT !.current_state = s], u).self.current_state = "idle"

\* a turn has ended in confirming_execution, and from that session a call
\* started in an unknown state goes to the initial-input handling
C3_Witness ==
    /\ Ended
    /\ current_state = "confirming_execution"
    /\ Dispatch([Self EXCEPT !.current_state = "error"], "asdkjasd").pc = "analyze_intent"
    /\ Dispatch(Self, "asdkjasd").pc = "generate_content_async"

\* an idle turn got as far as the end of parameter extraction
ExtractionDone ==
    /\ Ended
    /\ turn.start.current_state = "idle"
    /\ Called("extract_parameters")
    /\ Called("generate_clarification_questions") \/ Called("create_execution_plan")

\* C4 as stated: an idle turn that matched an API and whose extraction
\* left a required parameter without a valid value asks the clarification
\* question for exactly the entries of the missing list, has not called the
\* planner and ends in gathering_parameters; an idle turn with nothing
\* missing called the planner and ends in confirming_execution.
C4_QuestionOrPlan ==
    ExtractionDone =>
        IF Called("generate_clarification_questions")
        THEN /\ ~ Called("create_execution_plan")
             /\ CalledWith("generate_clarification_questions", Names(missing_parameters))
             /\ current_state = "gathering_parameters"
        ELSE /\ current_state = "confirming_execution"
             /\ Called("create_execution_plan")

\* an idle turn whose intent matched no API
NoMatchTurn ==
    /\ Ended
    /\ turn.resolved = Some(<< >>)

\* C5: an idle turn whose intent gives no API a positive score stays in
\* idle, calls neither extraction nor the planner, and returns the fixed
\* "I'm not sure how to help with" text with the user's text in it.
C5_NoMatchStaysIdle ==
    NoMatchTurn =>
        /\ \A i \in DOMAIN ApiOrder : match_score(current_intent[1], ApiOrder[i]) <= 0
        /\ current_state = "idle"
        /\ out.log.calls = << [fn |-> "analyze_intent", names |-> << >>] >>
        /\ out.response = [kind |-> "I'm not sure how to help with",
                           arg |-> turn.user_input]

\* the no-match turn came after an earlier intent had left a plan behind
C5_Witness ==
    /\ NoMatchTurn
    /\ turn.n > 1
    /\ turn.user_input = "asdkjasd"

\* a turn that started in gathering_parameters has ended without failure
GatheringDone ==
    /\ Ended
    /\ turn.start.current_state = "gathering_parameters"
    /\ ~ out.log.failed

\* C6 as stated: a gathering_parameters turn that does not fail leaves as
\* missing exactly the entries of the list it started with whose names the
\* newly stored values do not have, stays in gathering_parameters iff that
\* list is not empty, and is otherwise in confirming_execution.
C6_MissingShrinksByReply ==
    GatheringDone =>
        /\ missing_parameters =
              SelectSeq(turn.start.missing_parameters,
                        LAMBDA p : p.name \notin out.log.extracted_keys)
        /\ (current_state = "gathering_parameters") <=> (missing_parameters # << >>)
        /\ (missing_parameters = << >>) => (current_state = "confirming_execution")

\* C7 as stated: a gathering_parameters turn changes collected_parameters
\* only at names that were in the missing list when the turn started.
C7_OnlyOutstandingNamesChange ==
    (Ended /\ turn.start.current_state = "gathering_parameters") =>
        \A k \in DOMAIN collected_parameters :
            (k \notin DOMAIN turn.start.collected_parameters
               \/ collected_parameters[k] # turn.start.collected_parameters[k])
            => k \in Range(Names(turn.start.missing_parameters))

\* a turn that started in confirming_execution
ConfirmationTurn ==
    /\ Ended
    /\ turn.start.current_state = "confirming_execution"

\* C8: every turn processed in confirming_execution ends in idle; the
\* confirm branch is taken iff the lower-cased reply contains "yes", any
\* other reply is a decline, and a failed classification call also ends in
\* idle.
C8_ConfirmationEndsIdle ==
    ConfirmationTurn =>
        /\ current_state = "idle"
        /\ IF turn.confirm.raises
           THEN /\ out.log.failed
                /\ ~ Called("_simulate_api_execution")
           ELSE /\ Called("_simulate_api_execution") <=> SaysYes(turn.confirm.value[1])
                /\ ~ SaysYes(turn.confirm.value[1]) =>
                      out.response = [kind |-> "I've cancelled the operation", arg |-> ""]

\* the model answered " Yes" with a capital and the plan was simulated
C8_Witness ==
    /\ ConfirmationTurn
    /\ turn.confirm = Reply(<< " ", "Y", "e", "s", "\n" >>)
    /\ Called("_simulate_api_execution")
    /\ current_state = "idle"

\* the stored plan binds a collected value to every required parameter
PlanBindsAllRequired ==
    /\ execution_plan # None
    /\ Len(execution_plan[1].steps) = 1
    /\ \A n \in RequiredNames :
          /\ n \in DOMAIN execution_plan[1].steps[1].parameters
          /\ n \in DOMAIN collected_parameters
          /\ execution_plan[1].steps[1].parameters[n] = collected_parameters[n]

\* C9 as stated: confirming a plan that binds every required parameter
\* makes the simulated execution report success, the formatter produce the
\* success report, and the session end in idle.
C9_ConfirmedPlanSucceeds ==
    (/\ ConfirmationTurn
     /\ ~ turn.confirm.raises
     /\ SaysYes(turn.confirm.value[1])
     /\ ~ out.log.failed
     /\ PlanBindsAllRequired)
    => /\ out.log.results # << >>
       /\ \A i \in DOMAIN out.log.results : out.log.results[i].success
       /\ out.response = ResultsText("success report")
       /\ current_state = "idle"

\* C10 as stated: after a declined confirmation the session is in idle, the
\* response is the cancellation message, and execution_plan is null again.
C10_DeclineDiscardsPlan ==
    (/\ ConfirmationTurn
     /\ ~ turn.confirm.raises
     /\ ~ SaysYes(turn.confirm.value[1]))
    => /\ current_state = "idle"
       /\ out.response = [kind |-> "I've cancelled the operation", arg |-> ""]
       /\ execution_plan = None

\* C11 as stated: whenever a turn ends with the session in idle, every
\* session field is back at its initial value: intent unset, no matched
\* API, nothing collected, nothing missing, no plan.
C11_IdleMeansReset ==
    (Ended /\ current_state = "idle") =>
        /\ current_intent = None
        /\ matched_apis = << >>
        /\ collected_parameters = EmptyDict
        /\ missing_parameters = << >>
        /\ execution_plan = None

\* the exception of the planner's description call is caught in the planner
DescriptionRecovered == out.log.raised = "_generate_plan_description"

\* the apology with the text of an exception
IsApology(response) == response.kind = "Sorry, I encountered an error"

\* C12 as stated: if a model call or a component raised during the turn,
\* whatever the state it started in, the turn returns the apology with the
\* error text and the session is in idle.
C12_Original ==
    out.log.raised # "" =>
        /\ current_state = "idle"
        /\ IsApology(out.response)

\* C12 amended: an exception that reaches AIAgent ends the turn with the
\* apology carrying the error text and the session in idle; a failed
\* classification call in confirming_execution is such an exception.  The
\* exception of the planner's description call is recovered in the planner:
\* the turn ends in confirming_execution with the locally built description.
C12_FailureEndsIdle ==
    /\ (out.log.raised # "" /\ ~ DescriptionRecovered) =>
          /\ out.log.failed
          /\ current_state = "idle"
          /\ IsApology(out.response)
          /\ out.log.raised # "collected_parameters.update" =>
                out.response = ApologyText(ModelError)
    /\ out.log.failed => out.log.raised # ""
    /\ (ConfirmationTurn /\ turn.confirm.raises) =>
          out.log.raised = "generate_content_async"
    /\ DescriptionRecovered =>
          /\ ~ out.log.failed
          /\ current_state = "confirming_execution"
          /\ out.response = strip(PlanPromptText(SimplePlanText))

\* the report call of a confirmed plan raised: the turn ended in idle with
\* the apology
C12_Witness ==
    /\ turn.start.current_state = "confirming_execution"
    /\ out.log.raised = "format_results"
    /\ current_state = "idle"
    /\ out.response = ApologyText(ModelError)

\* C13 as stated: every turn, failed ones included, appends the user
\* utterance once and then the returned response once, so after n turns the
\* history is the 2n-entry alternating user/assistant sequence and its last
\* entry is the response just returned.
C13_HistoryAlternates ==
    Ended =>
        /\ Len(conversation_history) = 2 * turn.n
        /\ \A i \in DOMAIN conversation_history :
              conversation_history[i].role = IF i % 2 = 1 THEN "user" ELSE "assistant"
        /\ conversation_history[Len(conversation_history)].content = out.response

\* the turn made a reconciliation pass that did not fail
ReconciliationDone ==
    /\ Ended
    /\ ~ out.log.failed
    /\ Called("extract_parameters") \/ Called("process_user_response")

\* the declared parameters of the primary matched API
Declared == _get_required_parameters(matched_apis)

\* C14 as stated: after every reconciliation pass, the initial extraction
\* and every gathering turn alike, every collected value of a declared
\* parameter passes the type validation of its definition, and a required
\* parameter whose candidate value fails it is still in the missing list.
C14_CollectedIsValidated ==
    ReconciliationDone =>
        /\ \A k \in DOMAIN collected_parameters :
              ParamDef(Declared, k) # None =>
                  _validate_param_value(collected_parameters[k],
                                        ParamDef(Declared, k)[1]).valid
        /\ \A n \in RequiredNames :
              (\/ n \notin DOMAIN collected_parameters
               \/ ~ _validate_param_value(collected_parameters[n],
                                          ParamDef(Declared, n)[1]).valid)
              => n \in Range(Names(missing_parameters))

\* the tasks whose call of extract_parameters asked the model and returned
ExtractReturned ==
    { t \in Tasks : /\ turn.tasks[t].call = "extract_parameters"
                    /\ ~ turn.tasks[t].awaiting
                    /\ ~ turn.tasks[t].param_extraction[1].raises
                    /\ turn.tasks[t].param_extraction[1].called_model }

\* the declared parameters of the primary API of the list a call was made on
ArgumentsDeclare(f) == _get_required_parameters(f.matched_apis)

\* the number-typed declared parameters whose candidate value is "42"
NumbersGiven42(f) ==
    { p.name : p \in { q \in Range(ArgumentsDeclare(f)) :
                         /\ q.type = "number"
                         /\ q.name \in DOMAIN f.reply.value[1]
                         /\ f.reply.value[1][q.name] = Val("str", "42") } }

\* C15 as stated: a number-typed parameter whose candidate value is the
\* string "42" is accepted and is stored in the collected map as a number,
\* not as the original string.
C15_NumberStoredAsNumber ==
    \A t \in ExtractReturned :
        \A n \in NumbersGiven42(turn.tasks[t]) :
            /\ n \in DOMAIN turn.tasks[t].param_extraction[1].valid_params
            /\ turn.tasks[t].param_extraction[1].valid_params[n].py \in { "int", "float" }

\* the tasks whose call of create_execution_plan has returned
PlanReturned ==
    { t \in Tasks : /\ turn.tasks[t].call = "create_execution_plan"
                    /\ ~ turn.tasks[t].awaiting }

\* the plan has the one step of the primary API
OneStep(f) == f.plan # None /\ Len(f.plan[1].steps) = 1

\* C16: in the step the planner produces, a declared parameter whose name is
\* a key of the parameter map the planner was called with is bound to that
\* value; one that is not a key is bound to the "[MISSING: name]" sentinel
\* if it is required and is absent if it is optional.
C16_StepBindsDeclaredParameters ==
    \A t \in PlanReturned :
        OneStep(turn.tasks[t]) =>
            \A p \in Range(ArgumentsDeclare(turn.tasks[t])) :
                IF p.name \in DOMAIN turn.tasks[t].parameters
                THEN /\ p.name \in DOMAIN turn.tasks[t].plan[1].steps[1].parameters
                     /\ turn.tasks[t].plan[1].steps[1].parameters[p.name]
                            = turn.tasks[t].parameters[p.name]
                ELSE IF ParamGet(p, "required", FALSE)
                THEN /\ p.name \in DOMAIN turn.tasks[t].plan[1].steps[1].parameters
                     /\ turn.tasks[t].plan[1].steps[1].parameters[p.name]
                            = [py |-> "str", s |-> "[MISSING: " \o p.name \o "]"]
                ELSE p.name \notin DOMAIN turn.tasks[t].plan[1].steps[1].parameters

\* a plan for create_general_post, called with one value given and returned
\* after the caller stored a second one in the map: the other required
\* parameters carry the sentinel and the optional ones are absent
C16_Witness ==
    \E t \in PlanReturned :
        /\ OneStep(turn.tasks[t])
        /\ turn.tasks[t].called_model
        /\ turn.tasks[t].matched_apis = Matched("create_general_post")
        /\ DOMAIN turn.tasks[t].parameters = { "title" }
        /\ DOMAIN turn.parameters = { "title", "content" }
        /\ turn.tasks[t].plan[1].steps[1].parameters["content"]
               = [py |-> "str", s |-> "[MISSING: content]"]
        /\ \E p \in Range(ArgumentsDeclare(turn.tasks[t])) :
              /\ ~ ParamGet(p, "required", FALSE)
              /\ p.name \notin DOMAIN turn.tasks[t].plan[1].steps[1].parameters

AllDicts(f) == \A i \in DOMAIN f.matched_apis : IsDict(f.matched_apis[i])

NoPrimaryId(f) ==
    f.matched_apis # << >> /\ AllDicts(f) /\ "id" \notin DOMAIN f.matched_apis[1]

FallbackDescriptions ==
    { m \o " Please try rephrasing your request or providing more details." :
        m \in { "No APIs were matched to your request.",
                "I couldn't determine which API to use for your request.",
                "I encountered an error while planning how to handle your request." } }

\* C17 as stated: for an empty matched list, a primary match without id, or
\* any exception raised while planning, the planner returns a plan with an
\* empty step list and an explanatory description.
C17_Original ==
    \A t \in PlanReturned :
        (\/ turn.tasks[t].matched_apis = << >>
         \/ NoPrimaryId(turn.tasks[t])
         \/ ~ AllDicts(turn.tasks[t])
         \/ turn.tasks[t].called_model /\ turn.tasks[t].reply.raises)
        => /\ turn.tasks[t].plan[1].steps = << >>
           /\ turn.tasks[t].plan[1].description \in FallbackDescriptions

\* C17 amended: the planner always returns a plan.  For an empty matched
\* list, a primary match without id, or an exception raised before the
\* description is asked for, the plan has no steps and one of the fallback
\* descriptions, and the model is not asked; otherwise it has the step of
\* the primary API, with the model's description or, when the description
\* call raises, the locally built one.
C17_FallbackOrStep ==
    \A t \in PlanReturned :
        /\ turn.tasks[t].plan # None
        /\ IF \/ turn.tasks[t].matched_apis = << >>
              \/ NoPrimaryId(turn.tasks[t])
              \/ ~ AllDicts(turn.tasks[t])
           THEN /\ turn.tasks[t].plan[1].steps = << >>
                /\ turn.tasks[t].plan[1].description \in FallbackDescriptions
                /\ ~ turn.tasks[t].called_model
           ELSE /\ Len(turn.tasks[t].plan[1].steps) = 1
                /\ turn.tasks[t].called_model
                /\ turn.tasks[t].plan[1].description =
                      IF turn.tasks[t].reply.raises THEN SimplePlanText ELSE ModelPlanText

\* the planner was given a primary match without id
C17_Witness ==
    \E t \in PlanReturned :
        /\ NoPrimaryId(turn.tasks[t])
        /\ turn.tasks[t].plan[1].steps = << >>
        /\ turn.tasks[t].plan[1].description
              = "I couldn't determine which API to use for your request."
                \o " Please try rephrasing your request or providing more details."

\* the matched APIs that are dicts
MatchedDicts(f) == { a \in Range(f.matched_apis) : IsDict(a) }

\* a depends on b: b's path is among a's declared dependencies
DependsOn(a, b) ==
    /\ "dependencies" \in DOMAIN a
    /\ "path" \in DOMAIN b
    /\ b.path \in Range(a.dependencies)

DependencyEdges(f) ==
    { e \in MatchedDicts(f) \X MatchedDicts(f) : DependsOn(e[1], e[2]) }

RECURSIVE Closure(_, _)
Closure(R, n) ==
    IF n = 0 THEN R
    ELSE Closure(R \cup { << p[1][1], p[2][2] >> :
                              p \in { q \in R \X R : q[1][2] = q[2][1] } },
                 n - 1)

Acyclic(f) ==
    \A a \in MatchedDicts(f) :
        << a, a >> \notin Closure(DependencyEdges(f), Len(f.matched_apis))

StepIndexes(f, path) ==
    { i \in DOMAIN f.plan[1].steps : f.plan[1].steps[i].api = path }

\* C18 as stated: for matched APIs with acyclic dependencies, the steps
\* contain every dependency before its dependent.
C18_DependenciesFirst ==
    \A t \in PlanReturned :
        (AllDicts(turn.tasks[t]) /\ Acyclic(turn.tasks[t])) =>
            \A e \in DependencyEdges(turn.tasks[t]) :
                /\ StepIndexes(turn.tasks[t], e[1].path) # {}
                /\ StepIndexes(turn.tasks[t], e[2].path) # {}
                /\ \A i \in StepIndexes(turn.tasks[t], e[2].path),
                      j \in StepIndexes(turn.tasks[t], e[1].path) : i < j

\* the matched list has dicts only, the first with an id
PrimaryHasId(f) ==
    f.matched_apis # << >> /\ AllDicts(f) /\ "id" \in DOMAIN f.matched_apis[1]

\* C18 amended: for matched APIs with acyclic dependencies, the planner
\* plans the single highest-scoring match: the plan has exactly one step,
\* that of the first matched API, so no other matched API, dependency or
\* dependent, has a step, and no dependent's step precedes a step of one of
\* its dependencies.
C18_PrimaryApiOnly ==
    \A t \in PlanReturned :
        (PrimaryHasId(turn.tasks[t]) /\ Acyclic(turn.tasks[t])) =>
            /\ Len(turn.tasks[t].plan[1].steps) = 1
            /\ turn.tasks[t].plan[1].steps[1].api
                  = PrimaryApiInfo(turn.tasks[t].matched_apis[1]).path
            /\ \A e \in DependencyEdges(turn.tasks[t]) :
                  \A i \in StepIndexes(turn.tasks[t], e[2].path),
                     j \in StepIndexes(turn.tasks[t], e[1].path) : i < j

\* the planner was called on C, A, B, where C depends on A and B and A on
\* B: the plan is the step of C
C18_Witness ==
    \E t \in PlanReturned :
        /\ Len(turn.tasks[t].matched_apis) = 3
        /\ Acyclic(turn.tasks[t])
        /\ Cardinality(DependencyEdges(turn.tasks[t])) = 3
        /\ turn.tasks[t].called_model
        /\ Len(turn.tasks[t].plan[1].steps) = 1
        /\ turn.tasks[t].plan[1].steps[1].api = "/api/C"

\* C19 as stated: for matched APIs A and B with the cycle A -> B -> A, the
\* planner returns a plan whose steps contain A and B exactly once each.
C19_CycleKeepsBoth ==
    \A t \in PlanReturned :
        \A e \in DependencyEdges(turn.tasks[t]) :
            << e[2], e[1] >> \in DependencyEdges(turn.tasks[t]) =>
                /\ turn.tasks[t].plan # None
                /\ Cardinality(StepIndexes(turn.tasks[t], e[1].path)) = 1
                /\ Cardinality(StepIndexes(turn.tasks[t], e[2].path)) = 1

\* C19 amended: for matched APIs A and B with the cycle A -> B -> A, A
\* matched first, the planner returns a plan whose steps contain A exactly
\* once and B not at all.
C19_CycleKeepsPrimary ==
    \A t \in PlanReturned :
        PrimaryHasId(turn.tasks[t]) =>
            \A e \in DependencyEdges(turn.tasks[t]) :
                (/\ e[1] = turn.tasks[t].matched_apis[1]
                 /\ << e[2], e[1] >> \in DependencyEdges(turn.tasks[t]))
                => /\ turn.tasks[t].plan # None
                   /\ Cardinality(StepIndexes(turn.tasks[t], e[1].path)) = 1
                   /\ StepIndexes(turn.tasks[t], e[2].path) = {}

\* the planner was called on A and B that depend on each other, and the
\* description call raised: the plan is the step of A
C19_Witness ==
    \E t \in PlanReturned :
        /\ Len(turn.tasks[t].matched_apis) = 2
        /\ ~ Acyclic(turn.tasks[t])
        /\ turn.tasks[t].called_model
        /\ turn.tasks[t].reply.raises
        /\ Len(turn.tasks[t].plan[1].steps) = 1
        /\ turn.tasks[t].plan[1].steps[1].api = "/api/A"

RankCalled == turn.call = "find_apis_by_intent"

\* position of an API in the catalog
CatalogIndex(api_id) == CHOOSE i \in DOMAIN ApiOrder : ApiOrder[i] = api_id

\* C21: find_apis_by_intent returns exactly the catalog APIs whose score for
\* the intent is strictly positive, each once and with that score, ordered
\* by non-increasing score with ties in catalog order.
C21_PositiveScoresRanked ==
    RankCalled =>
        /\ { turn.result[1][i].id : i \in DOMAIN turn.result[1] }
              = { a \in Range(ApiOrder) : match_score(turn.intent, a) > 0 }
        /\ \A i \in DOMAIN turn.result[1] :
              /\ turn.result[1][i].match_score
                    = match_score(turn.intent, turn.result[1][i].id)
              /\ turn.result[1][i].match_score > 0
        /\ \A i, j \in DOMAIN turn.result[1] :
              i < j =>
                 \/ turn.result[1][i].match_score > turn.result[1][j].match_score
                 \/ /\ turn.result[1][i].match_score = turn.result[1][j].match_score
                    /\ CatalogIndex(turn.result[1][i].id) < CatalogIndex(turn.result[1][j].id)

\* a ranking with a tie, a strict descent, and an API left out for a
\* negative score
C21_Witness ==
    /\ RankCalled
    /\ \E i, j \in DOMAIN turn.result[1] :
          i < j /\ turn.result[1][i].match_score = turn.result[1][j].match_score
    /\ \E i, j \in DOMAIN turn.result[1] :
          turn.result[1][i].match_score > turn.result[1][j].match_score
    /\ \E a \in Range(ApiOrder) : match_score(turn.intent, a) < 0

\* C24 as stated: the missing-list entry of a required parameter whose
\* extracted candidate failed validation carries the reason of that failure,
\* and the entry of a parameter for which nothing was extracted carries
\* "Not provided".
C24_MissingCarriesFailureReason ==
    \A t \in ExtractReturned :
        \A i \in DOMAIN turn.tasks[t].param_extraction[1].missing_params :
            turn.tasks[t].param_extraction[1].missing_params[i].reason =
                IF turn.tasks[t].param_extraction[1].missing_params[i].name
                       \in DOMAIN turn.tasks[t].reply.value[1]
                THEN _validate_param_value(
                         turn.tasks[t].reply.value[1][
                             turn.tasks[t].param_extraction[1].missing_params[i].name],
                         ParamDef(ArgumentsDeclare(turn.tasks[t]),
                                  turn.tasks[t].param_extraction[1].missing_params[i].name)[1]
                     ).reason
                ELSE "Not provided"

ValidateCalled == turn.call = "_validate_param_value"

\* the candidate is None or a blank text
EmptyCandidate ==
    \/ turn.value.py = "NoneType"
    \/ turn.value.py = "str" /\ turn.value.s \in BlankTexts

\* the candidate is an object, or a text that parses as one
ObjectShaped ==
    \/ turn.value.py = "dict"
    \/ turn.value.py = "str" /\ turn.value.s \in JsonDictTexts

\* the candidate is a list, a text that parses as a JSON array, or a
\* comma-separated text
ArrayShaped ==
    \/ turn.value.py = "list"
    \/ turn.value.py = "str" /\ turn.value.s \in JsonListTexts \cup CommaTexts

\* C25 as stated: a non-empty candidate for an object-typed parameter is
\* accepted only if it is an object or a text that parses as one, and a
\* non-empty candidate for an array-typed parameter only if it is a list, a
\* text that parses as a JSON array, or a comma-separated text.
C25_ObjectAndArrayShapes ==
    (ValidateCalled /\ ~ EmptyCandidate) =>
        /\ turn.param_definition.type = "object" =>
              (turn.result[1].valid <=> ObjectShaped)
        /\ turn.param_definition.type = "array" =>
              (turn.result[1].valid <=> ArrayShaped)

\* the tasks whose call of _generate_plan_description on its own has ended
DescribeReturned ==
    { t \in Tasks : /\ turn.tasks[t].call = "_generate_plan_description"
                    /\ ~ turn.tasks[t].awaiting }

\* C26: the description is the model's text only for a non-empty step list
\* and a model call that succeeds.  For an empty step list the result is the
\* fixed sentence and the model is not asked; when the call raises in the
\* planner the plan keeps its step and gets the description built from the
\* steps alone.
C26_DescriptionFromModelOrSteps ==
    /\ \A t \in DescribeReturned :
          IF turn.tasks[t].execution_steps = << >>
          THEN /\ turn.tasks[t].described[1] = [raises |-> FALSE, text |-> NoActionsText]
               /\ ~ turn.tasks[t].called_model
          ELSE /\ turn.tasks[t].called_model
               /\ IF turn.tasks[t].reply.raises
                  THEN turn.tasks[t].described[1].raises
                  ELSE turn.tasks[t].described[1]
                          = [raises |-> FALSE, text |-> ModelPlanText]
    /\ \A t \in PlanReturned :
          /\ turn.tasks[t].plan[1].description = ModelPlanText
                <=> (/\ turn.tasks[t].plan[1].steps # << >>
                     /\ turn.tasks[t].called_model
                     /\ ~ turn.tasks[t].reply.raises)
          /\ turn.tasks[t].plan[1].steps = << >> => ~ turn.tasks[t].called_model
          /\ (turn.tasks[t].plan[1].steps # << >> /\ turn.tasks[t].reply.raises) =>
                turn.tasks[t].plan[1].description
                    = _generate_simple_plan_description(turn.tasks[t].plan[1].steps)

\* the description call raised in the planner: the plan has its step and the
\* description built from it
C26_Witness ==
    \E t \in PlanReturned :
        /\ turn.tasks[t].called_model
        /\ turn.tasks[t].reply.raises
        /\ Len(turn.tasks[t].plan[1].steps) = 1
        /\ turn.tasks[t].plan[1].description = SimplePlanText
        /\ turn.tasks[t].plan[1].steps[1].parameters # EmptyDict

\* the turn went through _prepare_execution
PlanBuilt == turn.ended /\ Called("create_execution_plan")

\* C27 as stated: whenever the controller builds a plan, every required
\* parameter of the API the plan is for was a key of collected_parameters
\* when the planner read it, so that no step of the plan binds the
\* "[MISSING: name]" sentinel.
C27_ControllerPlanHasNoSentinel ==
    PlanBuilt =>
        /\ execution_plan # None
        /\ \A i \in DOMAIN execution_plan[1].steps :
              \A n \in DOMAIN execution_plan[1].steps[i].parameters :
                  execution_plan[1].steps[i].parameters[n] # MissingSentinel(n)

\* C28 as stated: whenever the session is in confirming_execution, the plan is set
\* and has exactly one step, whose path and method are those of the first
\* matched API, the API whose declared parameters drove the collection: the
\* step binds only names of that declaration.
C28_ConfirmingPlanIsPrimaryApi ==
    current_state = "confirming_execution" =>
        /\ execution_plan # None
        /\ Len(execution_plan[1].steps) = 1
        /\ matched_apis # << >>
        /\ execution_plan[1].steps[1].api = API_KNOWLEDGE[matched_apis[1].id].path
        /\ execution_plan[1].steps[1].method = API_KNOWLEDGE[matched_apis[1].id].method
        /\ DOMAIN execution_plan[1].steps[1].parameters
              \subseteq Range(Names(Declared))

\* C29 as stated: every value bound in a step of a plan the controller
\* builds is a value a reply of the model gave for that name during the
\* intent the session had when the planner was called, in the idle turn
\* that selected the API or in a later gathering turn; what the session
\* held from an earlier intent is not bound.
C29_PlanBindsCurrentIntentValues ==
    PlanBuilt =>
        \A i \in DOMAIN execution_plan[1].steps :
            \A n \in DOMAIN execution_plan[1].steps[i].parameters :
                \/ execution_plan[1].steps[i].parameters[n] = MissingSentinel(n)
                \/ << n, execution_plan[1].steps[i].parameters[n] >> \in out.log.fresh

\* the handler of connection c is inside a call of process_user_input,
\* waiting for the language model
InTurn(c) == transport.connections[c].pc \notin { "closed", "receive_text" }

\* C22: for one session id, no call of process_user_input starts while an
\* earlier one waits for the language model, also with two connections open
\* on the session id: at most one handler is inside a turn.
C22_TurnsNeverInterleave ==
    \A c \in Connections, d \in Connections :
        (InTurn(c) /\ InTurn(d)) => c = d

\* the last message sent on connection c is the message of a turn
PerTurnMessage(c) ==
    /\ transport.connections[c].sent # None
    /\ "context" \in DOMAIN transport.connections[c].sent[1]

\* C23: the message of a turn has a non-empty context, made of the intent,
\* the execution plan and the collected parameters, exactly when the state
\* of the session after the turn is confirming_execution; after a turn that
\* ends in idle or gathering_parameters the context is empty.
C23_ContextIffConfirming ==
    \A c \in Connections :
        PerTurnMessage(c) =>
            IF transport.connections[c].state_then = "confirming_execution"
            THEN /\ DOMAIN transport.connections[c].sent[1].context
                       = { "intent", "execution_plan", "parameters" }
                 /\ transport.connections[c].sent[1].context.intent # None
                 /\ transport.connections[c].sent[1].context.execution_plan # None
            ELSE /\ transport.connections[c].state_then
                       \in { "idle", "gathering_parameters" }
                 /\ transport.connections[c].sent[1].context = EmptyDict

\* one connection was last sent the message of a turn that ended in
\* confirming_execution, another the message of a turn that ended in
\* gathering_parameters
C23_Witness ==
    \E c \in Connections, d \in Connections :
        /\ PerTurnMessage(c)
        /\ transport.connections[c].state_then = "confirming_execution"
        /\ transport.connections[c].sent[1].context # EmptyDict
        /\ PerTurnMessage(d)
        /\ transport.connections[d].state_then = "gathering_parameters"
        /\ transport.connections[d].sent[1].context = EmptyDict

\* C30: the state of every message sent to a client, the welcome message of
\* a connection opened on a session id that already has an agent included,
\* is the state the session was in when the message was sent, and is one of
\* idle, gathering_parameters and confirming_execution.
C30_SentStateIsSessionState ==
    \A c \in Connections :
        transport.connections[c].sent # None =>
            /\ transport.connections[c].sent[1].state
                  = transport.connections[c].state_then
            /\ transport.connections[c].sent[1].state \in States
=============================================================================
